---- MODULE Spec2Model ----
(***************************************************************************)
(* Dialog router, session store and ticket accumulator of the Azure        *)
(* Intelligent Support Bot (src/index.js).  Texts are TLA+ strings; the    *)
(* string helpers below compute what the JavaScript built-ins compute.     *)
(***************************************************************************)
EXTENDS Integers, Sequences, FiniteSets, TLC

VARIABLES
    sessions,   \* the Map `sessions`: conversation id -> session object
    revision,   \* which revision of index.js the process runs
    call,       \* the analyzeLanguage call a handler is waiting for, if any
    now,        \* the wall clock read by nowISO() / Date.now()
    replies,    \* what the last turn sent with context.sendActivity, in order
    calls,      \* number of analyzeLanguage calls made by the last turn
    last,       \* the input of the last turn and the session it found
    turns       \* number of activities handled so far

vars == <<sessions, revision, call, now, replies, calls, last, turns>>

----------------------------------------------------------------------------
(* Bounds of the model                                                     *)

\* number of activities a run handles
MaxTurns == 6

----------------------------------------------------------------------------
(* JavaScript string and array built-ins                                   *)

Min(a, b) == IF a < b THEN a ELSE b

WhiteSpace == {" ", "\t", "\n"}

RECURSIVE trimStart(_)
trimStart(s) ==
    IF Len(s) > 0 /\ SubSeq(s, 1, 1) \in WhiteSpace
    THEN trimStart(SubSeq(s, 2, Len(s)))
    ELSE s

RECURSIVE trimEnd(_)
trimEnd(s) ==
    IF Len(s) > 0 /\ SubSeq(s, Len(s), Len(s)) \in WhiteSpace
    THEN trimEnd(SubSeq(s, 1, Len(s) - 1))
    ELSE s

trim(s) == trimEnd(trimStart(s))

\* the upper-case letters and their lower-case forms
LowerOf ==
    [ A |-> "a", B |-> "b", C |-> "c", D |-> "d", E |-> "e", F |-> "f", G |-> "g",
      H |-> "h", I |-> "i", J |-> "j", K |-> "k", L |-> "l", M |-> "m", N |-> "n",
      O |-> "o", P |-> "p", Q |-> "q", R |-> "r", S |-> "s", T |-> "t", U |-> "u",
      V |-> "v", W |-> "w", X |-> "x", Y |-> "y", Z |-> "z" ]

lowerChar(c) == IF c \in DOMAIN LowerOf THEN LowerOf[c] ELSE c

RECURSIVE toLowerCase(_)
toLowerCase(s) ==
    IF Len(s) = 0 THEN ""
    ELSE IF Len(s) = 1 THEN lowerChar(s)
    ELSE LET half == Len(s) \div 2
         IN  toLowerCase(SubSeq(s, 1, half)) \o toLowerCase(SubSeq(s, half + 1, Len(s)))

\* s.includes(w) on strings
strIncludes(s, w) ==
    \E i \in 1..(Len(s) - Len(w) + 1) : SubSeq(s, i, i + Len(w) - 1) = w

startsWith(s, w) == Len(s) >= Len(w) /\ SubSeq(s, 1, Len(w)) = w

\* s.slice(from, to) and s.slice(from), for 0 <= from <= to
slice(s, from, to) == SubSeq(s, from + 1, Min(to, Len(s)))
sliceFrom(s, from) == SubSeq(s, from + 1, Len(s))

\* arr.includes(v) on arrays
arrIncludes(arr, v) == \E i \in 1..Len(arr) : arr[i] = v

RECURSIVE join(_, _)
join(arr, sep) ==
    IF Len(arr) = 0 THEN ""
    ELSE IF Len(arr) = 1 THEN arr[1]
    ELSE arr[1] \o sep \o join(Tail(arr), sep)

----------------------------------------------------------------------------
(* Helpers of index.js                                                     *)

\* faulty variant: the text is taken as it came
safeTrimKeepsBlanks(s) == s

safeTrim(s) == trim(s)

RECURSIVE repeat(_, _)
repeat(s, n) ==
    IF n = 0 THEN ""
    ELSE IF n = 1 THEN s
    ELSE repeat(s, n \div 2) \o repeat(s, n - (n \div 2))

\* 224 characters: longer than the slice limits of the handler (180 and 220)
LongText == "my wifi keeps dropping " \o repeat("ab ", 67)

CommandTexts ==
    { "help", "reset", "start", "summary",
      "mode network", "mode windows", "mode account", "mode app", "mode triage" }

FreeTexts == { LongText, "mode idle", "Error 0x80070057" }

BlankTexts == { "   " }

InputTexts == CommandTexts \cup FreeTexts \cup BlankTexts

\* lower() of the texts that recur in every turn, computed once
lowerOfInput ==
    LET trimmed == {trim(s) : s \in InputTexts}
        lowered == {toLowerCase(s) : s \in trimmed}
    IN  [s \in InputTexts \cup trimmed \cup lowered |-> toLowerCase(trim(s))]

\* faulty variant: the text is trimmed and its case is kept
lowerKeepsCase(s) == safeTrim(s)

lower(s) ==
    IF s \in DOMAIN lowerOfInput THEN lowerOfInput[s]
    ELSE toLowerCase(safeTrim(s))

containsAny(text, words) ==
    LET t == lower(text)
    IN  \E i \in 1..Len(words) : strIncludes(t, words[i])

\* faulty variants: no duplicate check; a value already present is moved to the end
uniqPushNoCheck(arr, value) ==
    IF value = "" THEN arr ELSE Append(arr, value)

uniqPushMovesToEnd(arr, value) ==
    IF value = "" THEN arr
    ELSE Append(SelectSeq(arr, LAMBDA v : v # value), value)

uniqPush(arr, value) ==
    IF value = "" THEN arr
    ELSE IF ~arrIncludes(arr, value) THEN Append(arr, value)
    ELSE arr

----------------------------------------------------------------------------
(* Azure Language client: analyzeLanguage                                  *)

\* JavaScript null
Null == [isNull |-> TRUE]

Pending == [status |-> "pending"]
Fulfilled(doc) == [status |-> "fulfilled", value |-> <<doc>>]
Rejected == [status |-> "rejected", reason |-> "service error"]

pick(res) == IF res.status = "fulfilled" THEN res.value[1] ELSE Null

\* faulty variant: the wait ends with the first promise that settles
firstSettled(slots) == \E i \in 1..Len(slots) : slots[i].status # "pending"

\* Promise.allSettled: the wait ends when no promise is pending
allSettled(slots) == \A i \in 1..Len(slots) : slots[i].status # "pending"

\* settled: the four Promise.allSettled results, in call order
analyzeLanguage(settled) ==
    [ sentiment  |-> pick(settled[1]),
      keyphrases |-> pick(settled[2]),
      language   |-> pick(settled[3]),
      pii        |-> pick(settled[4]),
      rawErrors  |->
        [ sentiment  |-> IF settled[1].status = "rejected" THEN settled[1].reason ELSE "",
          keyphrases |-> IF settled[2].status = "rejected" THEN settled[2].reason ELSE "",
          language   |-> IF settled[3].status = "rejected" THEN settled[3].reason ELSE "",
          pii        |-> IF settled[4].status = "rejected" THEN settled[4].reason ELSE "" ] ]

----------------------------------------------------------------------------
(* In-memory sessions                                                      *)

SESSION_TTL_MS == 45 * 60 * 1000
SWEEP_INTERVAL_MS == 5 * 60 * 1000

Modes == {"idle", "triage", "network", "windows", "account", "app"}

emptyTicket ==
    [ issue |-> "", device |-> "", os |-> "", app |-> "",
      symptoms |-> <<>>, whatTried |-> <<>>, errors |-> <<>>,
      urgency |-> "normal" ]

defaultSession(t) ==
    [ createdAt |-> t, lastSeenAt |-> t, mode |-> "idle", step |-> 0,
      ticket |-> emptyTicket ]

\* faulty variant: an activity without a conversation id is filed under its sender
conversationIdPerSender(activity) ==
    IF "conversation" \in DOMAIN activity /\ activity.conversation # ""
    THEN activity.conversation
    ELSE IF "from" \in DOMAIN activity THEN activity.from
    ELSE "no-conv-id"

\* context.activity?.conversation?.id || "no-conv-id"
conversationId(activity) ==
    IF "conversation" \in DOMAIN activity /\ activity.conversation # ""
    THEN activity.conversation
    ELSE "no-conv-id"

\* faulty variant: lastSeenAt is set only when the session is created
getSessionNoRefresh(store, cid, t) ==
    IF cid \in DOMAIN store THEN store
    ELSE (cid :> defaultSession(t)) @@ store

\* faulty variant: the lookup of a session older than the TTL clears its mode
\* and step and keeps its ticket
getSessionClearsOld(store, cid, t) ==
    LET withCid == IF cid \in DOMAIN store THEN store
                   ELSE (cid :> defaultSession(t)) @@ store
        old == withCid[cid].lastSeenAt < t - SESSION_TTL_MS
    IN  [withCid EXCEPT ![cid].lastSeenAt = t,
                        ![cid].mode = IF old THEN "idle" ELSE @,
                        ![cid].step = IF old THEN 0 ELSE @]

\* faulty variant: the lookup replaces a session idle for longer than the TTL
getSessionExpires(store, cid, t) ==
    LET withCid == IF cid \in DOMAIN store /\ ~(store[cid].lastSeenAt < t - SESSION_TTL_MS)
                   THEN store
                   ELSE (cid :> defaultSession(t)) @@ store
    IN  [withCid EXCEPT ![cid].lastSeenAt = t]

\* the store after getSession(context); the session returned is store[cid]
getSession(store, cid, t) ==
    LET withCid == IF cid \in DOMAIN store THEN store
                   ELSE (cid :> defaultSession(t)) @@ store
    IN  [withCid EXCEPT ![cid].lastSeenAt = t]

\* faulty variants: the ticket object is kept; the new ticket lacks its urgency
resetSessionKeepsTicket(session) ==
    [session EXCEPT !.mode = "idle", !.step = 0]

resetSessionDropsUrgency(session) ==
    [session EXCEPT !.mode = "idle", !.step = 0,
                    !.ticket = [emptyTicket EXCEPT !.urgency = ""]]

resetSession(session) ==
    [session EXCEPT !.mode = "idle", !.step = 0, !.ticket = emptyTicket]

\* faulty variant: a session exactly as old as the TTL is removed too
sweepAtCutoff(store, t) ==
    LET cutoff == t - SESSION_TTL_MS
        keep == {cid \in DOMAIN store : ~(store[cid].lastSeenAt <= cutoff)}
    IN  [cid \in keep |-> store[cid]]

\* faulty variant: a session in the middle of a flow is never removed
sweepSparesFlows(store, t) ==
    LET cutoff == t - SESSION_TTL_MS
        keep == {cid \in DOMAIN store :
                    ~(store[cid].lastSeenAt < cutoff) \/ store[cid].mode # "idle"}
    IN  [cid \in keep |-> store[cid]]

\* the setInterval callback: the store after one sweep at time t
sweep(store, t) ==
    LET cutoff == t - SESSION_TTL_MS
        keep == {cid \in DOMAIN store : ~(store[cid].lastSeenAt < cutoff)}
    IN  [cid \in keep |-> store[cid]]

----------------------------------------------------------------------------
(* Tone, formatting, classification                                        *)

tonePrefix(sentimentDoc) ==
    LET sentiment == IF sentimentDoc # Null /\ sentimentDoc.sentiment # ""
                     THEN sentimentDoc.sentiment ELSE "neutral"
    IN  IF sentiment = "negative" THEN "tone: I got you"
        ELSE IF sentiment = "positive" THEN "tone: Nice"
        ELSE "tone: Alright"

\* Number(x).toFixed(2) of a score held in hundredths
toFixed2(h) ==
    ToString(h \div 100) \o "." \o ToString((h % 100) \div 10) \o ToString(h % 10)

formatConfidence(sentimentDoc) ==
    IF sentimentDoc = Null \/ "confidenceScores" \notin DOMAIN sentimentDoc THEN ""
    ELSE LET cs == sentimentDoc.confidenceScores
         IN  " (pos " \o toFixed2(cs.positive) \o ", neu " \o toFixed2(cs.neutral)
             \o ", neg " \o toFixed2(cs.negative) \o ")"

\* analysis.language?.primaryLanguage?.iso6391Name || "unknown"
detectedLang(analysis) ==
    IF analysis.language # Null /\ analysis.language.primaryLanguage.iso6391Name # ""
    THEN analysis.language.primaryLanguage.iso6391Name
    ELSE "unknown"

\* analysis.sentiment?.sentiment || "neutral"
sentimentOf(analysis) ==
    IF analysis.sentiment # Null /\ analysis.sentiment.sentiment # ""
    THEN analysis.sentiment.sentiment
    ELSE "neutral"

\* the reply text, or "" for JavaScript null
piiWarning(piiDoc) ==
    LET entities == IF piiDoc # Null THEN piiDoc.entities ELSE <<>>
    IN  IF Len(entities) = 0 THEN "" ELSE "pii warning"

NetworkWords == <<"wifi", "wi-fi", "internet", "router", "dns", "ip", "ethernet", "network">>
NetworkPhrases == <<"wifi", "router", "dns", "ip", "internet", "network">>
WindowsWords == <<"windows", "blue screen", "bsod", "driver", "update", "device manager">>
AccountWords == <<"login", "password", "account", "mfa", "2fa", "locked", "sign in", "signin">>
AppWords == <<"app", "crash", "error", "bug", "install", "uninstall", "permission">>

\* faulty variants: the default label is idle; the account group is tried
\* first; a key phrase matches when it contains a network keyword
classifyIssueDefaultsIdle(text, keyPhrases) ==
    LET t == lower(text)
        kp == [i \in 1..Len(keyPhrases) |-> lower(keyPhrases[i])]
    IN  IF \/ containsAny(t, NetworkWords)
           \/ \E i \in 1..Len(kp) : arrIncludes(NetworkPhrases, kp[i])
        THEN "network"
        ELSE IF containsAny(t, WindowsWords) THEN "windows"
        ELSE IF containsAny(t, AccountWords) THEN "account"
        ELSE IF containsAny(t, AppWords) THEN "app"
        ELSE "idle"

classifyIssueAccountFirst(text, keyPhrases) ==
    LET t == lower(text)
        kp == [i \in 1..Len(keyPhrases) |-> lower(keyPhrases[i])]
    IN  IF containsAny(t, AccountWords) THEN "account"
        ELSE IF \/ containsAny(t, NetworkWords)
                \/ \E i \in 1..Len(kp) : arrIncludes(NetworkPhrases, kp[i])
        THEN "network"
        ELSE IF containsAny(t, WindowsWords) THEN "windows"
        ELSE IF containsAny(t, AppWords) THEN "app"
        ELSE "triage"

classifyIssuePhrasesBySubstring(text, keyPhrases) ==
    LET t == lower(text)
        kp == [i \in 1..Len(keyPhrases) |-> lower(keyPhrases[i])]
    IN  IF \/ containsAny(t, NetworkWords)
           \/ \E i \in 1..Len(kp) : containsAny(kp[i], NetworkPhrases)
        THEN "network"
        ELSE IF containsAny(t, WindowsWords) THEN "windows"
        ELSE IF containsAny(t, AccountWords) THEN "account"
        ELSE IF containsAny(t, AppWords) THEN "app"
        ELSE "triage"

classifyIssue(text, keyPhrases) ==
    LET t == lower(text)
        kp == [i \in 1..Len(keyPhrases) |-> lower(keyPhrases[i])]
    IN  IF \/ containsAny(t, NetworkWords)
           \/ \E i \in 1..Len(kp) : arrIncludes(NetworkPhrases, kp[i])
        THEN "network"
        ELSE IF containsAny(t, WindowsWords) THEN "windows"
        ELSE IF containsAny(t, AccountWords) THEN "account"
        ELSE IF containsAny(t, AppWords) THEN "app"
        ELSE "triage"

flowIntro(mode) ==
    IF mode \in {"triage", "network", "windows", "account", "app"}
    THEN "intro: " \o mode
    ELSE "intro: triage"

\* faulty variants: `triage` missing from the list; `idle` accepted as a name
parseModeCommandNoTriage(text) ==
    LET t == lower(text)
    IN  IF ~startsWith(t, "mode ") THEN ""
        ELSE LET m == trim(sliceFrom(t, 5))
             IN  IF arrIncludes(<<"network", "windows", "account", "app">>, m)
                 THEN m ELSE ""

parseModeCommandAcceptsIdle(text) ==
    LET t == lower(text)
    IN  IF ~startsWith(t, "mode ") THEN ""
        ELSE LET m == trim(sliceFrom(t, 5))
             IN  IF arrIncludes(<<"idle", "network", "windows", "account", "app", "triage">>, m)
                 THEN m ELSE ""

\* faulty variant: the name is the first word after `mode`
parseModeCommandByFirstWord(text) ==
    LET t == lower(text)
    IN  IF ~startsWith(t, "mode ") THEN ""
        ELSE LET m == trim(sliceFrom(t, 5))
                 word == IF \E k \in 1..Len(m) : SubSeq(m, k, k) = " "
                         THEN SubSeq(m, 1, (CHOOSE k \in 1..Len(m) :
                                               /\ SubSeq(m, k, k) = " "
                                               /\ \A j \in 1..(k - 1) : SubSeq(m, j, j) # " ") - 1)
                         ELSE m
             IN  IF arrIncludes(<<"network", "windows", "account", "app", "triage">>, word)
                 THEN word ELSE ""

CommandModes == <<"network", "windows", "account", "app", "triage">>

\* the forced mode, or "" for JavaScript null
parseModeCommand(text) ==
    LET t == lower(text)
    IN  IF ~startsWith(t, "mode ") THEN ""
        ELSE LET m == trim(sliceFrom(t, 5))
             IN  IF arrIncludes(CommandModes, m) THEN m ELSE ""

----------------------------------------------------------------------------
(* Guided flows of the bot endpoint (server.post("/api/messages"))         *)

\* what a piece of the handler leaves: the session, the replies it sent, the
\* number of analyzeLanguage calls made, and whether it ended by throwing
Out(session, sent) ==
    [session |-> session, replies |-> sent, calls |-> 0, threw |-> FALSE]

Fallback(session) == Out(session, <<"fallback: type start or help">>)

\* faulty variant: step 2 writes the answer into device instead of os
triageFlowOsIntoDevice(session, userText, topKP, analysis) ==
    IF session.step = 0 THEN
        Out([session EXCEPT !.ticket.issue = userText, !.step = 1],
            <<tonePrefix(analysis.sentiment) \o " Got it.", "triage: what device">>)
    ELSE IF session.step = 1 THEN
        Out([session EXCEPT !.ticket.device = userText, !.step = 2],
            <<"triage: what os">>)
    ELSE IF session.step = 2 THEN
        Out([session EXCEPT !.ticket.device = userText, !.step = 3],
            <<"triage: paste error text">>)
    ELSE IF session.step = 3 THEN
        LET mode == classifyIssue(session.ticket.issue \o " " \o userText, topKP)
        IN  Out([session EXCEPT
                    !.ticket.errors = uniqPush(@, userText),
                    !.mode = mode,
                    !.step = 0],
                <<"triage: switching to a focused mode", "mode: " \o mode, flowIntro(mode)>>)
    ELSE Fallback(session)

\* faulty variant: a text of no group leaves the interview for the app questions
triageFlowFallsBackToApp(session, userText, topKP, analysis) ==
    IF session.step = 0 THEN
        Out([session EXCEPT !.ticket.issue = userText, !.step = 1],
            <<tonePrefix(analysis.sentiment) \o " Got it.", "triage: what device">>)
    ELSE IF session.step = 1 THEN
        Out([session EXCEPT !.ticket.device = userText, !.step = 2],
            <<"triage: what os">>)
    ELSE IF session.step = 2 THEN
        Out([session EXCEPT !.ticket.os = userText, !.step = 3],
            <<"triage: paste error text">>)
    ELSE IF session.step = 3 THEN
        LET label == classifyIssue(session.ticket.issue \o " " \o userText, topKP)
            mode == IF label = "triage" THEN "app" ELSE label
        IN  Out([session EXCEPT
                    !.ticket.errors = uniqPush(@, userText),
                    !.mode = mode,
                    !.step = 0],
                <<"triage: switching to a focused mode", "mode: " \o mode, flowIntro(mode)>>)
    ELSE Fallback(session)

triageFlow(session, userText, topKP, analysis) ==
    IF session.step = 0 THEN
        Out([session EXCEPT !.ticket.issue = userText, !.step = 1],
            <<tonePrefix(analysis.sentiment) \o " Got it.", "triage: what device">>)
    ELSE IF session.step = 1 THEN
        Out([session EXCEPT !.ticket.device = userText, !.step = 2],
            <<"triage: what os">>)
    ELSE IF session.step = 2 THEN
        Out([session EXCEPT !.ticket.os = userText, !.step = 3],
            <<"triage: paste error text">>)
    ELSE IF session.step = 3 THEN
        LET mode == classifyIssue(session.ticket.issue \o " " \o userText, topKP)
        IN  Out([session EXCEPT
                    !.ticket.errors = uniqPush(@, userText),
                    !.mode = mode,
                    !.step = 0],
                <<"triage: switching to a focused mode", "mode: " \o mode, flowIntro(mode)>>)
    ELSE Fallback(session)

networkDiagnosis(userText) ==
    LET l == lower(userText)
    IN  IF strIncludes(l, "request timed out") \/ strIncludes(l, "unreachable")
        THEN "network: connectivity path issue"
        ELSE IF \/ strIncludes(l, "server can't find")
                \/ strIncludes(l, "dns")
                \/ strIncludes(l, "non-existent domain")
        THEN "network: looks like dns"
        ELSE "network: only this device"

networkFlow(session, userText) ==
    IF session.step = 0 THEN
        Out([session EXCEPT
                !.ticket.issue = IF @ # "" THEN @ ELSE userText,
                !.step = 1],
            <<"network: wifi or ethernet">>)
    ELSE IF session.step = 1 THEN
        Out([session EXCEPT
                !.ticket.symptoms = uniqPush(@, "connection: " \o userText),
                !.step = 2],
            <<"network: quick checks">>)
    ELSE IF session.step = 2 THEN
        Out([session EXCEPT
                !.ticket.symptoms = uniqPush(@, "basic check: " \o userText),
                !.step = 3],
            <<"network: run one command">>)
    ELSE IF session.step = 3 THEN
        Out([session EXCEPT
                !.ticket.whatTried = uniqPush(@, "network diagnostics provided"),
                !.ticket.errors = uniqPush(@, "network output: " \o slice(userText, 0, 220)),
                !.step = 4],
            <<networkDiagnosis(userText), "type summary anytime">>)
    ELSE Out(session, <<"network: type summary, reset or mode triage">>)

\* faulty variant: the first answer skips the question about recent changes
windowsFlowSkipsQuestion(session, userText) ==
    IF session.step = 0 THEN
        Out([session EXCEPT
                !.ticket.issue = IF @ # "" THEN @ ELSE userText,
                !.step = 2],
            <<"windows: quick checks">>)
    ELSE IF session.step = 1 THEN
        Out([session EXCEPT
                !.ticket.symptoms = uniqPush(@, "recent change: " \o userText),
                !.step = 2],
            <<"windows: quick checks">>)
    ELSE IF session.step = 2 THEN
        Out([session EXCEPT
                !.ticket.whatTried = uniqPush(@, "windows update/sfc suggested"),
                !.ticket.errors = uniqPush(@, userText),
                !.step = 3],
            <<"windows: next step options", "windows: mode app or mode windows">>)
    ELSE Out(session, <<"windows: type summary or send the stop code">>)

windowsFlow(session, userText) ==
    IF session.step = 0 THEN
        Out([session EXCEPT
                !.ticket.issue = IF @ # "" THEN @ ELSE userText,
                !.step = 1],
            <<"windows: what changed">>)
    ELSE IF session.step = 1 THEN
        Out([session EXCEPT
                !.ticket.symptoms = uniqPush(@, "recent change: " \o userText),
                !.step = 2],
            <<"windows: quick checks">>)
    ELSE IF session.step = 2 THEN
        Out([session EXCEPT
                !.ticket.whatTried = uniqPush(@, "windows update/sfc suggested"),
                !.ticket.errors = uniqPush(@, userText),
                !.step = 3],
            <<"windows: next step options", "windows: mode app or mode windows">>)
    ELSE Out(session, <<"windows: type summary or send the stop code">>)

\* faulty variant: step 3 advances the step like the app flow does
accountFlowAdvances(session, userText) ==
    IF session.step = 0 THEN
        Out([session EXCEPT
                !.ticket.issue = IF @ # "" THEN @ ELSE userText,
                !.step = 1],
            <<"account: which login">>)
    ELSE IF session.step = 1 THEN
        Out([session EXCEPT
                !.ticket.symptoms = uniqPush(@, "login type: " \o userText),
                !.step = 2],
            <<"account: what exactly happens">>)
    ELSE IF session.step = 2 THEN
        Out([session EXCEPT
                !.ticket.errors = uniqPush(@, userText),
                !.step = 3],
            <<"account: common fixes">>)
    ELSE IF session.step = 3 THEN
        Out([session EXCEPT !.ticket.whatTried = uniqPush(@, userText), !.step = 4],
            <<"account: type summary">>)
    ELSE Fallback(session)

accountFlow(session, userText) ==
    IF session.step = 0 THEN
        Out([session EXCEPT
                !.ticket.issue = IF @ # "" THEN @ ELSE userText,
                !.step = 1],
            <<"account: which login">>)
    ELSE IF session.step = 1 THEN
        Out([session EXCEPT
                !.ticket.symptoms = uniqPush(@, "login type: " \o userText),
                !.step = 2],
            <<"account: what exactly happens">>)
    ELSE IF session.step = 2 THEN
        Out([session EXCEPT
                !.ticket.errors = uniqPush(@, userText),
                !.step = 3],
            <<"account: common fixes">>)
    ELSE IF session.step = 3 THEN
        Out([session EXCEPT !.ticket.whatTried = uniqPush(@, userText)],
            <<"account: type summary">>)
    ELSE Fallback(session)

appFlow(session, userText) ==
    IF session.step = 0 THEN
        Out([session EXCEPT
                !.ticket.issue = IF @ # "" THEN @ ELSE userText,
                !.step = 1],
            <<"app: what app and version">>)
    ELSE IF session.step = 1 THEN
        Out([session EXCEPT !.ticket.app = userText, !.step = 2],
            <<"app: exact error message">>)
    ELSE IF session.step = 2 THEN
        Out([session EXCEPT
                !.ticket.errors = uniqPush(@, userText),
                !.step = 3],
            <<"app: quick fixes">>)
    ELSE IF session.step = 3 THEN
        Out([session EXCEPT
                !.ticket.whatTried = uniqPush(@, "app fixes tried: " \o userText),
                !.step = 4],
            <<"app: narrow it down", "app: type summary for the final ticket">>)
    ELSE Out(session, <<"app: type summary or paste the latest result">>)

\* analysis.keyphrases?.keyPhrases || [], then slice(0, 6)
keyPhrasesOf(analysis) ==
    IF analysis.keyphrases # Null THEN analysis.keyphrases.keyPhrases ELSE <<>>

KEY_PHRASE_LIMIT == 6
ISSUE_LIMIT == 180

\* faulty variant: the slice(0, 6) is missing
allKeyPhrases(analysis) == keyPhrasesOf(analysis)

topKeyPhrases(analysis) ==
    LET keyPhrases == keyPhrasesOf(analysis)
    IN  SubSeq(keyPhrases, 1, Min(KEY_PHRASE_LIMIT, Len(keyPhrases)))

keywordsLine(topKP) == "keywords: " \o join(topKP, ", ")

\* faulty variant: a text of no group is recorded and the session stays idle
idleRouteStaysIdle(session, userText, topKP, analysis) ==
    LET mode == classifyIssue(userText, topKP)
        routed == [session EXCEPT
                     !.mode = IF mode = "triage" THEN "idle" ELSE mode,
                     !.step = 0,
                     !.ticket.issue =
                         IF @ # "" THEN @ ELSE slice(userText, 0, ISSUE_LIMIT),
                     !.ticket.symptoms =
                         IF Len(topKP) > 0 THEN uniqPush(@, keywordsLine(topKP))
                         ELSE @]
    IN  Out(routed,
            << tonePrefix(analysis.sentiment)
                 \o " (lang: " \o detectedLang(analysis)
                 \o ", sentiment: " \o sentimentOf(analysis)
                 \o formatConfidence(analysis.sentiment) \o ")",
               flowIntro(mode) >>)

\* first message in idle: auto-route
idleRoute(session, userText, topKP, analysis) ==
    LET mode == classifyIssue(userText, topKP)
        routed == [session EXCEPT
                     !.mode = mode,
                     !.step = 0,
                     !.ticket.issue =
                         IF @ # "" THEN @ ELSE slice(userText, 0, ISSUE_LIMIT),
                     !.ticket.symptoms =
                         IF Len(topKP) > 0 THEN uniqPush(@, keywordsLine(topKP))
                         ELSE @]
    IN  Out(routed,
            << tonePrefix(analysis.sentiment)
                 \o " (lang: " \o detectedLang(analysis)
                 \o ", sentiment: " \o sentimentOf(analysis)
                 \o formatConfidence(analysis.sentiment) \o ")",
               flowIntro(mode) >>)

\* faulty variant: the keywords line is pushed without the duplicate check
noteKeywordsTwice(session, topKP) ==
    IF Len(topKP) > 0
    THEN [session EXCEPT !.ticket.symptoms = Append(@, keywordsLine(topKP))]
    ELSE session

\* "store keywords sometimes": the session after the keywords line is noted
noteKeywords(session, topKP) ==
    IF Len(topKP) > 0
    THEN [session EXCEPT !.ticket.symptoms = uniqPush(@, keywordsLine(topKP))]
    ELSE session

\* the chain of `if (session.mode === ...)` blocks and the final fallback
guidedFlows(session, userText, topKP, analysis) ==
    IF session.mode = "triage" /\ session.step \in 0..3
    THEN triageFlow(session, userText, topKP, analysis)
    ELSE IF session.mode = "network" THEN networkFlow(session, userText)
    ELSE IF session.mode = "windows" THEN windowsFlow(session, userText)
    ELSE IF session.mode = "account" /\ session.step \in 0..3
    THEN accountFlow(session, userText)
    ELSE IF session.mode = "app" THEN appFlow(session, userText)
    ELSE Fallback(session)

\* the handler from the PII warning on: the analysis call has returned
afterAnalysis(session, userText, analysis) ==
    LET piiMsg == piiWarning(analysis.pii)
        piiSent == IF piiMsg # "" THEN <<piiMsg>> ELSE <<>>
        topKP == topKeyPhrases(analysis)
    IN  [ (IF session.mode = "idle"
           THEN idleRoute(session, userText, topKP, analysis)
           ELSE guidedFlows(noteKeywords(session, topKP), userText, topKP, analysis))
          EXCEPT !.replies = piiSent \o @ ]

----------------------------------------------------------------------------
(* Commands and the message handler of the bot endpoint                    *)

\* faulty variant: the Symptoms line is written for an empty sequence too
ticketSummaryListsEmpty(ticket) ==
    join(
        << "----- TECH SUPPORT TICKET SUMMARY -----",
           "Issue: " \o (IF ticket.issue # "" THEN ticket.issue ELSE "(not set)"),
           "Device: " \o (IF ticket.device # "" THEN ticket.device ELSE "(unknown)"),
           "OS: " \o (IF ticket.os # "" THEN ticket.os ELSE "(unknown)"),
           "App: " \o (IF ticket.app # "" THEN ticket.app ELSE "(n/a)"),
           "Urgency: " \o ticket.urgency,
           "Symptoms: " \o join(ticket.symptoms, " | ") >>
        \o (IF Len(ticket.errors) > 0
            THEN <<"Errors: " \o join(ticket.errors, " | ")>> ELSE <<>>)
        \o (IF Len(ticket.whatTried) > 0
            THEN <<"Tried: " \o join(ticket.whatTried, " | ")>> ELSE <<>>)
        \o <<"--------------------------------------">>,
        "\n")

ticketSummary(ticket) ==
    join(
        << "----- TECH SUPPORT TICKET SUMMARY -----",
           "Issue: " \o (IF ticket.issue # "" THEN ticket.issue ELSE "(not set)"),
           "Device: " \o (IF ticket.device # "" THEN ticket.device ELSE "(unknown)"),
           "OS: " \o (IF ticket.os # "" THEN ticket.os ELSE "(unknown)"),
           "App: " \o (IF ticket.app # "" THEN ticket.app ELSE "(n/a)"),
           "Urgency: " \o ticket.urgency >>
        \o (IF Len(ticket.symptoms) > 0
            THEN <<"Symptoms: " \o join(ticket.symptoms, " | ")>> ELSE <<>>)
        \o (IF Len(ticket.errors) > 0
            THEN <<"Errors: " \o join(ticket.errors, " | ")>> ELSE <<>>)
        \o (IF Len(ticket.whatTried) > 0
            THEN <<"Tried: " \o join(ticket.whatTried, " | ")>> ELSE <<>>)
        \o <<"--------------------------------------">>,
        "\n")

helpText == "commands: help, start, reset, summary, mode network | windows | account | app | triage"

\* context.activity.text, "" when the activity carries none
textOf(activity) == IF "text" \in DOMAIN activity THEN activity.text ELSE ""

\* TRUE iff the handler reaches the analyzeLanguage call
reachesAnalysis(activity) ==
    LET userText == safeTrim(textOf(activity))
        t == lower(userText)
    IN  /\ activity.type = "message"
        /\ userText # ""
        /\ t \notin {"help", "reset", "start", "summary"}
        /\ parseModeCommand(userText) = ""

helpCommand(session) == Out(session, <<helpText>>)

resetCommand(session) == Out(resetSession(session), <<"reset done">>)

\* faulty variant: the step is not reset
startCommandKeepsStep(session) ==
    Out([session EXCEPT !.mode = "triage"],
        <<"starting tech support flow", flowIntro("triage")>>)

startCommand(session) ==
    Out([session EXCEPT !.mode = "triage", !.step = 0],
        <<"starting tech support flow", flowIntro("triage")>>)

\* faulty variants: the summary runs the analysis first; the ticket is cleared
\* once it has been shown
summaryCommandAnalyses(session) ==
    [Out(session, <<"here is your ticket summary", ticketSummary(session.ticket)>>)
        EXCEPT !.calls = 1]

summaryCommandClears(session) ==
    Out([session EXCEPT !.ticket = emptyTicket],
        <<"here is your ticket summary", ticketSummary(session.ticket)>>)

summaryCommand(session) ==
    Out(session, <<"here is your ticket summary", ticketSummary(session.ticket)>>)

\* faulty variant: the new mode starts with an empty ticket
modeCommandClearsTicket(session, forcedMode) ==
    Out([session EXCEPT !.mode = forcedMode, !.step = 0, !.ticket = emptyTicket],
        <<"mode set to: " \o forcedMode, flowIntro(forcedMode)>>)

modeCommand(session, forcedMode) ==
    Out([session EXCEPT !.mode = forcedMode, !.step = 0],
        <<"mode set to: " \o forcedMode, flowIntro(forcedMode)>>)

\* faulty variant: the flow is restarted when the call throws
analysisFailedRestarts(session) ==
    [Out([session EXCEPT !.step = 0], <<"could not reach Azure Language Service">>)
        EXCEPT !.calls = 1]

\* faulty variant: the catch block logs the error and sends nothing
analysisFailedSilent(session) ==
    [Out(session, <<>>) EXCEPT !.calls = 1]

\* the catch block around the analyzeLanguage call
analysisFailed(session) ==
    [Out(session, <<"could not reach Azure Language Service">>) EXCEPT !.calls = 1]

\* outcome: what the awaited analyzeLanguage call did
onMessage(session, activity, outcome) ==
    LET userText == safeTrim(textOf(activity))
        t == lower(userText)
        forcedMode == parseModeCommand(userText)
    IN  IF activity.type # "message" THEN Out(session, <<>>)
        ELSE IF userText = "" THEN Out(session, <<"send a message">>)
        ELSE IF t = "help" THEN helpCommand(session)
        ELSE IF t = "reset" THEN resetCommand(session)
        ELSE IF t = "start" THEN startCommand(session)
        ELSE IF t = "summary" THEN summaryCommand(session)
        ELSE IF forcedMode # "" THEN modeCommand(session, forcedMode)
        ELSE IF outcome.threw THEN analysisFailed(session)
        ELSE [ afterAnalysis(session, userText, analyzeLanguage(outcome.settled))
               EXCEPT !.calls = 1 ]

----------------------------------------------------------------------------
(* The web + bot revision: handleText, shared by POST /api/analyze and     *)
(* POST /api/messages (lines 620-1079)                                     *)

\* sessionId || newId(): fresh is what crypto.randomBytes would return
sessionIdOr(sessionId, fresh) == IF sessionId # "" THEN sessionId ELSE fresh

\* the store after getSessionById(sid); the session returned is store[sid]
getSessionById(store, sid, t) ==
    LET withSid == IF sid \in DOMAIN store THEN store
                   ELSE (sid :> defaultSession(t)) @@ store
    IN  [withSid EXCEPT ![sid].lastSeenAt = t]

\* the rejected promise of handleText: the awaited analyzeLanguage threw
handleTextRejects(session) ==
    [Out(session, <<>>) EXCEPT !.calls = 1, !.threw = TRUE]

idleRouteText(session, userText, topKP, analysis) ==
    LET mode == classifyIssue(userText, topKP)
        piiMsg == piiWarning(analysis.pii)
        routed == [session EXCEPT
                     !.mode = mode,
                     !.step = 0,
                     !.ticket.issue =
                         IF @ # "" THEN @ ELSE slice(userText, 0, ISSUE_LIMIT),
                     !.ticket.symptoms =
                         IF Len(topKP) > 0 THEN uniqPush(@, keywordsLine(topKP))
                         ELSE @]
    IN  Out(routed,
            << (IF piiMsg # "" THEN piiMsg \o "\n\n" ELSE "")
               \o tonePrefix(analysis.sentiment) \o "\n\n" \o flowIntro(mode) >>)

FallbackText(session) == Out(session, <<"fallback: type start or help">>)

triageText(session, userText, topKP, analysis) ==
    IF session.step = 0 THEN
        Out([session EXCEPT !.ticket.issue = userText, !.step = 1],
            <<tonePrefix(analysis.sentiment) \o "\n\n" \o "triage: what device">>)
    ELSE IF session.step = 1 THEN
        Out([session EXCEPT !.ticket.device = userText, !.step = 2],
            <<"triage: what os">>)
    ELSE IF session.step = 2 THEN
        Out([session EXCEPT !.ticket.os = userText, !.step = 3],
            <<"triage: paste error text">>)
    ELSE IF session.step = 3 THEN
        LET mode == classifyIssue(session.ticket.issue \o " " \o userText, topKP)
        IN  Out([session EXCEPT
                    !.ticket.errors = uniqPush(@, userText),
                    !.mode = mode,
                    !.step = 0],
                <<"triage: switching to: " \o mode \o "\n\n" \o flowIntro(mode)>>)
    ELSE FallbackText(session)

\* faulty variant: step 0 does not advance
networkTextStuck(session, userText) ==
    IF session.step = 0 THEN
        Out(session, <<"network: wifi or ethernet">>)
    ELSE IF session.step = 1 THEN
        Out([session EXCEPT
                !.ticket.symptoms = uniqPush(@, "connection: " \o userText),
                !.step = 2],
            <<"network: any website">>)
    ELSE IF session.step = 2 THEN
        Out([session EXCEPT
                !.ticket.symptoms = uniqPush(@, "basic check: " \o userText),
                !.step = 3],
            <<"network: run one command">>)
    ELSE IF session.step = 3 THEN
        Out([session EXCEPT
                !.ticket.whatTried = uniqPush(@, "network diagnostics provided"),
                !.ticket.errors = uniqPush(@, "network output: " \o slice(userText, 0, 220)),
                !.step = 4],
            <<"network: only this device, type summary anytime">>)
    ELSE FallbackText(session)

networkText(session, userText) ==
    IF session.step = 0 THEN
        Out([session EXCEPT !.step = 1], <<"network: wifi or ethernet">>)
    ELSE IF session.step = 1 THEN
        Out([session EXCEPT
                !.ticket.symptoms = uniqPush(@, "connection: " \o userText),
                !.step = 2],
            <<"network: any website">>)
    ELSE IF session.step = 2 THEN
        Out([session EXCEPT
                !.ticket.symptoms = uniqPush(@, "basic check: " \o userText),
                !.step = 3],
            <<"network: run one command">>)
    ELSE IF session.step = 3 THEN
        Out([session EXCEPT
                !.ticket.whatTried = uniqPush(@, "network diagnostics provided"),
                !.ticket.errors = uniqPush(@, "network output: " \o slice(userText, 0, 220)),
                !.step = 4],
            <<"network: only this device, type summary anytime">>)
    ELSE FallbackText(session)

\* the chain of `if (session.mode === ...)` blocks of handleText
guidedText(session, userText, topKP, analysis) ==
    IF session.mode = "triage" THEN triageText(session, userText, topKP, analysis)
    ELSE IF session.mode = "network" THEN networkText(session, userText)
    ELSE IF session.mode = "windows" THEN Out(session, <<"windows: answer these">>)
    ELSE IF session.mode = "account" THEN Out(session, <<"account: answer these">>)
    ELSE IF session.mode = "app" THEN Out(session, <<"app: answer these">>)
    ELSE FallbackText(session)

\* handleText from the PII warning on: the analysis call has returned
afterAnalysisText(session, userText, analysis) ==
    LET topKP == topKeyPhrases(analysis)
    IN  IF session.mode = "idle"
        THEN idleRouteText(session, userText, topKP, analysis)
        ELSE guidedText(noteKeywords(session, topKP), userText, topKP, analysis)

\* TRUE iff handleText reaches the analyzeLanguage call
textReachesAnalysis(userText) ==
    /\ lower(userText) \notin {"help", "reset", "start", "summary"}
    /\ parseModeCommand(userText) = ""

handleText(session, userText, outcome) ==
    LET t == lower(userText)
        forcedMode == parseModeCommand(userText)
    IN  IF t = "help" THEN Out(session, <<helpText>>)
        ELSE IF t = "reset" THEN Out(resetSession(session), <<"reset done">>)
        ELSE IF t = "start" THEN
            Out([session EXCEPT !.mode = "triage", !.step = 0],
                <<"starting tech support" \o "\n\n" \o flowIntro("triage")>>)
        ELSE IF t = "summary" THEN Out(session, <<ticketSummary(session.ticket)>>)
        ELSE IF forcedMode # "" THEN
            Out([session EXCEPT !.mode = forcedMode, !.step = 0],
                <<"mode set to: " \o forcedMode \o "\n\n" \o flowIntro(forcedMode)>>)
        ELSE IF outcome.threw THEN handleTextRejects(session)
        ELSE [ afterAnalysisText(session, userText, analyzeLanguage(outcome.settled))
               EXCEPT !.calls = 1 ]

----------------------------------------------------------------------------
(* Inputs                                                                  *)

MainId == "c1"

Activities ==
    [type : {"message"}, text : InputTexts, conversation : {MainId}]
    \cup { [type |-> "message", conversation |-> MainId],
           [type |-> "conversationUpdate", conversation |-> MainId] }

SevenPhrases == <<"screen", "cable", "office", "laptop", "monday", "printer", "wifi">>

Thrown == [threw |-> TRUE]
Returned(settled) == [threw |-> FALSE, settled |-> settled]
NotCalled == [threw |-> FALSE, settled |-> <<>>]

Outcomes ==
    { Thrown,
      Returned(<<Rejected, Rejected, Rejected, Rejected>>),
      Returned(<< Fulfilled([sentiment |-> "negative",
                             confidenceScores |->
                                 [positive |-> 1, neutral |-> 4, negative |-> 95]]),
                  Fulfilled([keyPhrases |-> SevenPhrases]),
                  Fulfilled([primaryLanguage |-> [iso6391Name |-> "en"]]),
                  Fulfilled([entities |-> <<[category |-> "Email"]>>]) >>) }

----------------------------------------------------------------------------
(* The state machine                                                       *)

\* the process has started: no session, no activity handled
Started ==
    /\ sessions = <<>>
    /\ now = 0
    /\ replies = <<>>
    /\ calls = 0
    /\ last = [kind |-> "none"]
    /\ turns = 0
    /\ call = [phase |-> "none"]

\* the revision with the bot endpoint only (lines 1-619)
Init == Started /\ revision = "bot"

\* the revision with the web chat and the bot endpoint (lines 620-1079)
InitWeb == Started /\ revision = "web"

InitEither == Started /\ revision \in {"bot", "web"}

\* the session the Map holds under cid when the lookup starts, if it holds one
Stored(cid) == IF cid \in DOMAIN sessions THEN <<sessions[cid]>> ELSE <<>>

\* the session of cid that the sweep of the step before removed, if it did
Revived(cid) ==
    IF last.kind = "sweep" /\ cid \in last.removed THEN <<last.from[cid]>> ELSE <<>>

\* faulty variant: every session of the store holds the one ticket object the
\* handler wrote to
HandledSharedTicket(activity, outcome, cid, store, done) ==
    /\ sessions' = [c \in DOMAIN store |->
                        IF c = cid THEN done.session
                        ELSE [store[c] EXCEPT !.ticket = done.session.ticket]]
    /\ replies' = done.replies
    /\ calls' = done.calls
    /\ last' = [kind |-> "turn", activity |-> activity, outcome |-> outcome,
                cid |-> cid, pre |-> store[cid], revived |-> Revived(cid),
                stored |-> Stored(cid)]

\* the handler has run on the session found in store: commit what it leaves
Handled(activity, outcome, cid, store, done) ==
    /\ sessions' = [store EXCEPT ![cid] = done.session]
    /\ replies' = done.replies
    /\ calls' = done.calls
    /\ last' = [kind |-> "turn", activity |-> activity, outcome |-> outcome,
                cid |-> cid, pre |-> store[cid], revived |-> Revived(cid),
                stored |-> Stored(cid)]

\* one inbound activity on POST /api/messages, handled to the end
BotTurn(activity, outcome) ==
    /\ turns < MaxTurns
    /\ revision = "bot"
    /\ turns' = turns + 1
    /\ UNCHANGED <<now, revision, call>>
    /\ \E cid \in {conversationId(activity)} :
           \E store \in {getSession(sessions, cid, now)} :
               \E done \in {onMessage(store[cid], activity, outcome)} :
                   Handled(activity, outcome, cid, store, done)

Next ==
    \E activity \in Activities :
        \E outcome \in (IF reachesAnalysis(activity) THEN Outcomes ELSE {NotCalled}) :
            BotTurn(activity, outcome)

Spec == Init /\ [][Next]_vars

----------------------------------------------------------------------------
(* The endpoints of the web + bot revision                                 *)

WebId == "w1"

\* ids newId() hands out
NewIds == {"n1"}

\* req.body of POST /api/analyze: every text in the browser's session, and
\* a first request that names no session
Bodies ==
    [text : InputTexts, sessionId : {WebId}]
    \cup {[text |-> "start", sessionId |-> ""]}

\* handleText has run on the session found in store: commit what it leaves;
\* failure is what the endpoint answers when handleText rejects
WebHandled(kind, activity, outcome, sid, store, done, failure) ==
    /\ sessions' = [store EXCEPT ![sid] = done.session]
    /\ replies' = IF done.threw THEN <<failure>> ELSE done.replies
    /\ calls' = done.calls
    /\ last' = [kind |-> kind, activity |-> activity, outcome |-> outcome,
                cid |-> sid, pre |-> store[sid], revived |-> Revived(sid),
                stored |-> Stored(sid)]

\* the endpoint answers before it looks up a session
Unrouted(activity, sent) ==
    /\ sessions' = sessions
    /\ replies' = sent
    /\ calls' = 0
    /\ last' = [kind |-> "unrouted", activity |-> activity]

\* one request on POST /api/analyze, handled to the end
AnalyzeTurn(body, fresh, outcome) ==
    /\ turns < MaxTurns
    /\ revision = "web"
    /\ turns' = turns + 1
    /\ UNCHANGED <<now, revision, call>>
    /\ IF safeTrim(body.text) = ""
       THEN Unrouted([type |-> "message", text |-> body.text], <<"400: Missing text">>)
       ELSE \E sid \in {sessionIdOr(safeTrim(body.sessionId), fresh)} :
              \E store \in {getSessionById(sessions, sid, now)} :
                \E done \in {handleText(store[sid], safeTrim(body.text), outcome)} :
                  WebHandled("web",
                             [type |-> "message", text |-> body.text, conversation |-> sid],
                             outcome, sid, store, done, "500: Server error")

\* one inbound activity on POST /api/messages of the web + bot revision
MessagesTurn(activity, fresh, outcome) ==
    /\ turns < MaxTurns
    /\ revision = "web"
    /\ turns' = turns + 1
    /\ UNCHANGED <<now, revision, call>>
    /\ IF activity.type # "message" THEN Unrouted(activity, <<>>)
       ELSE IF safeTrim(textOf(activity)) = ""
       THEN Unrouted(activity, <<"send a message">>)
       ELSE \E sid \in {sessionIdOr(activity.conversation, fresh)} :
              \E store \in {getSessionById(sessions, sid, now)} :
                \E done \in {handleText(store[sid], safeTrim(textOf(activity)), outcome)} :
                  WebHandled("messages", activity, outcome, sid, store, done,
                             "something went wrong")

\* the ids newId() can return when the request names no session
FreshIds(sessionId) ==
    IF sessionId = "" THEN NewIds \ DOMAIN sessions ELSE {""}

\* the outcomes of the analysis call a text can meet
OutcomesOf(text) ==
    IF safeTrim(text) # "" /\ textReachesAnalysis(safeTrim(text))
    THEN Outcomes ELSE {NotCalled}

\* context.activity of the Emulator: its own conversation, or none
WebActivities ==
    { [type |-> "message", text |-> "Error 0x80070057", conversation |-> WebId],
      [type |-> "message", text |-> "reset", conversation |-> ""],
      [type |-> "message", text |-> "   ", conversation |-> WebId],
      [type |-> "conversationUpdate", conversation |-> WebId] }

NextWeb ==
    \/ \E body \in Bodies :
         \E fresh \in FreshIds(safeTrim(body.sessionId)) :
           \E outcome \in OutcomesOf(body.text) :
             AnalyzeTurn(body, fresh, outcome)
    \/ \E activity \in WebActivities :
         \E fresh \in FreshIds(activity.conversation) :
           \E outcome \in OutcomesOf(textOf(activity)) :
             MessagesTurn(activity, fresh, outcome)

SpecWeb == InitWeb /\ [][NextWeb]_vars

\* a run of either revision
NextEither == Next \/ NextWeb

SpecEither == InitEither /\ [][NextEither]_vars

----------------------------------------------------------------------------
(* The session store under the clock and the sweep timer                   *)

\* number of activities a run of the store specification handles
MaxStoreTurns == 3

\* how many sweep intervals past the TTL the clock runs
MaxLate == 1

\* "" stands for an activity without a conversation id
StoreIds == {"c1", "c2", ""}

StoreTexts == {"help", "reset", "start", "summary", "mode app", "   ", "Error 0x80070057"}

\* one conversation sends everything, the other two enough to hold a ticket
StoreActivities ==
    [type : {"message"}, text : StoreTexts, conversation : {"c1"}]
    \cup [type : {"message"}, text : {"start", "Error 0x80070057"}, conversation : {"c2"}]
    \cup [type : {"message"}, text : {"mode app"}, conversation : {""}]
    \cup [type : {"conversationUpdate"}, conversation : {"c1"}]

\* the instants at which something happens: one sweep interval after the
\* start, the TTL after the start, and whole sweep intervals after that
Instants ==
    {SWEEP_INTERVAL_MS, SESSION_TTL_MS}
    \cup {SESSION_TTL_MS + k * SWEEP_INTERVAL_MS : k \in 1..MaxLate}

\* time passes until instant t; nothing is sent and nothing is called
Tick(t) ==
    /\ t > now
    /\ now' = t
    /\ replies' = <<>>
    /\ calls' = 0
    /\ last' = [kind |-> "tick"]
    /\ UNCHANGED <<sessions, revision, call, turns>>

\* the handler that waits for its analysis keeps the session object it looked
\* up; once the Map no longer holds that object, the handler holds the only
\* reference to it
Detached(waiting, store) ==
    IF waiting.phase # "none" /\ waiting.attached /\ waiting.cid \notin DOMAIN store
    THEN [waiting EXCEPT !.attached = FALSE, !.held = <<sessions[waiting.cid]>>]
    ELSE waiting

\* the setInterval callback fires
Sweep ==
    /\ sessions' = sweep(sessions, now)
    /\ call' = Detached(call, sessions')
    /\ replies' = <<>>
    /\ calls' = 0
    /\ last' = [kind |-> "sweep", removed |-> DOMAIN sessions \ DOMAIN sessions',
                from |-> sessions]
    /\ UNCHANGED <<revision, now, turns>>

StoreTurn(activity, outcome) ==
    /\ turns < MaxStoreTurns
    /\ BotTurn(activity, outcome)

\* requests of two browsers, and of one that has no session id yet
StoreBodies ==
    [text : {"start", "Error 0x80070057"}, sessionId : {WebId}]
    \cup [text : {"mode app", "reset"}, sessionId : {"w2"}]
    \cup {[text |-> "start", sessionId |-> ""]}

StoreRequest(body, fresh, outcome) ==
    /\ turns < MaxStoreTurns
    /\ AnalyzeTurn(body, fresh, outcome)

StoreMessage(activity, fresh, outcome) ==
    /\ turns < MaxStoreTurns
    /\ MessagesTurn(activity, fresh, outcome)

NextStore ==
    \/ \E activity \in StoreActivities :
           \E outcome \in (IF reachesAnalysis(activity) THEN Outcomes ELSE {NotCalled}) :
               StoreTurn(activity, outcome)
    \/ \E body \in StoreBodies :
           \E fresh \in FreshIds(safeTrim(body.sessionId)) :
               \E outcome \in OutcomesOf(body.text) :
                   StoreRequest(body, fresh, outcome)
    \/ \E activity \in WebActivities :
           \E fresh \in FreshIds(activity.conversation) :
               \E outcome \in OutcomesOf(textOf(activity)) :
                   StoreMessage(activity, fresh, outcome)
    \/ \E t \in Instants : Tick(t)
    \/ Sweep

SpecStore == InitEither /\ [][NextStore]_vars

----------------------------------------------------------------------------
(* The bot handler with its analyzeLanguage call unfolded: the four        *)
(* sub-analyses settle one by one, in any order                            *)

AnalyzeTexts == {"start", "mode network", "Error 0x80070057", LongText}

AnalyzeActivities == [type : {"message"}, text : AnalyzeTexts, conversation : {MainId}]

\* what the service answers to each of the four requests when it answers
SlotDocs ==
    << [sentiment |-> "negative"],
       [keyPhrases |-> SevenPhrases],
       [primaryLanguage |-> [iso6391Name |-> "en"]],
       [entities |-> <<[category |-> "Email"]>>] >>

\* the handler reaches `await analyzeLanguage(userText)`: the four requests
\* are sent and the handler waits
Receive(activity) ==
    /\ turns < MaxTurns
    /\ revision = "bot"
    /\ call.phase = "none"
    /\ reachesAnalysis(activity)
    /\ turns' = turns + 1
    /\ \E cid \in {conversationId(activity)} :
           /\ sessions' = getSession(sessions, cid, now)
           /\ call' = [phase |-> "awaiting", activity |-> activity, cid |-> cid,
                       slots |-> <<Pending, Pending, Pending, Pending>>,
                       since |-> now, attached |-> TRUE, held |-> <<>>]
           /\ last' = [kind |-> "received", activity |-> activity, cid |-> cid,
                       pre |-> sessions'[cid], revived |-> Revived(cid),
                       stored |-> Stored(cid)]
    /\ replies' = <<>>
    /\ calls' = 1
    /\ UNCHANGED <<now, revision>>

\* one of the four promises fulfils or rejects
Settle(i, res) ==
    /\ call.phase = "awaiting"
    /\ call.slots[i] = Pending
    /\ call' = [call EXCEPT !.slots[i] = res]
    /\ UNCHANGED <<sessions, revision, now, replies, calls, last, turns>>

\* the await of Promise.allSettled ends and analyzeLanguage returns
Return ==
    /\ call.phase = "awaiting"
    /\ allSettled(call.slots)
    /\ call' = [phase |-> "returned", activity |-> call.activity, cid |-> call.cid,
                slots |-> call.slots, since |-> call.since,
                attached |-> call.attached, held |-> call.held,
                result |-> analyzeLanguage(call.slots)]
    /\ UNCHANGED <<sessions, revision, now, replies, calls, last, turns>>

\* the session object the waiting handler holds: the one in the Map under
\* its identifier, or the one a sweep deleted from the Map
Held == IF call.attached THEN sessions[call.cid] ELSE call.held[1]

\* faulty variant: the handler puts the session it holds back into the Map
OrphanedStoresBack(activity, outcome, cid, done) ==
    /\ sessions' = (cid :> done.session) @@ sessions
    /\ replies' = done.replies
    /\ calls' = done.calls
    /\ last' = [kind |-> "orphan", activity |-> activity, outcome |-> outcome,
                cid |-> cid, pre |-> Held, post |-> done.session]

\* the handler has run on a session object the Map no longer holds: what it
\* wrote is in no session of the store
Orphaned(activity, outcome, cid, done) ==
    /\ sessions' = sessions
    /\ replies' = done.replies
    /\ calls' = done.calls
    /\ last' = [kind |-> "orphan", activity |-> activity, outcome |-> outcome,
                cid |-> cid, pre |-> Held, post |-> done.session]

\* the handler continues with the analysis it was waiting for
Resume ==
    /\ call.phase = "returned"
    /\ \E done \in {[ afterAnalysis(Held, safeTrim(textOf(call.activity)), call.result)
                      EXCEPT !.calls = 1 ]} :
           IF call.attached
           THEN Handled(call.activity, Returned(call.slots), call.cid, sessions, done)
           ELSE Orphaned(call.activity, Returned(call.slots), call.cid, done)
    /\ call' = [phase |-> "none"]
    /\ UNCHANGED <<revision, now, turns>>

\* a turn that does not wait: a command, or a call that throws at once
Direct(activity) ==
    /\ call.phase = "none"
    /\ BotTurn(activity, IF reachesAnalysis(activity) THEN Thrown ELSE NotCalled)

NextAnalyze ==
    \/ \E activity \in AnalyzeActivities : Direct(activity) \/ Receive(activity)
    \/ \E i \in 1..4 : \E res \in {Rejected, Fulfilled(SlotDocs[i])} : Settle(i, res)
    \/ Return
    \/ Resume

SpecAnalyze == Init /\ [][NextAnalyze]_vars

----------------------------------------------------------------------------
(* The bot handler, the clock and the sweep timer interleaved: while one   *)
(* handler waits for its analysis, further activities of the conversation  *)
(* are handled, time passes and the sweep fires                            *)

\* number of activities a run of the race specification handles
MaxRaceTurns == 3

RaceTexts == {"start", "summary", "reset", "Error 0x80070057"}

\* one conversation sends everything, a second one enough to hold a ticket
RaceActivities ==
    [type : {"message"}, text : RaceTexts, conversation : {MainId}]
    \cup [type : {"message"}, text : {"start", "Error 0x80070057"}, conversation : {"c2"}]

\* an activity handled without a wait: a command, or a call that throws at
\* once; it is handled whether or not another handler is waiting
RaceTurn(activity) ==
    /\ turns < MaxRaceTurns
    /\ BotTurn(activity, IF reachesAnalysis(activity) THEN Thrown ELSE NotCalled)

\* a free-text activity whose handler waits for its analysis
RaceReceive(activity) ==
    /\ turns < MaxRaceTurns
    /\ Receive(activity)

\* the four promises have settled and analyzeLanguage returns
Answered(settled) ==
    /\ call.phase = "awaiting"
    /\ call' = [result |-> analyzeLanguage(settled)]
               @@ [call EXCEPT !.phase = "returned", !.slots = settled]
    /\ UNCHANGED <<sessions, revision, now, replies, calls, last, turns>>

NextRace ==
    \/ \E activity \in RaceActivities : RaceTurn(activity) \/ RaceReceive(activity)
    \/ \E outcome \in Outcomes \ {Thrown} : Answered(outcome.settled)
    \/ Resume
    \/ \E t \in Instants : Tick(t)
    \/ Sweep

SpecRace == Init /\ [][NextRace]_vars

----------------------------------------------------------------------------
(* classifyIssue applied to texts and key phrase lists                     *)

\* number of words in a text, number of key phrases in a list
MaxWords == 2
MaxPhrases == 2

\* a network word in mixed case, a word that contains the network keyword
\* "ip", a windows, an account and an app word, and a word of no group
ClassifyWords == {"WiFi", "zip", "Update", "password", "crash", "hello"}

\* a network phrase in mixed case, a phrase that contains a network keyword,
\* a windows, an account and an app keyword as phrases, and a phrase of no group
ClassifyPhrases == {"Router", "wifi signal", "update", "locked", "crash", "printer"}

\* the sequences over S of length at most n
RECURSIVE SeqsUpTo(_, _)
SeqsUpTo(S, n) ==
    IF n = 0 THEN {<<>>}
    ELSE LET shorter == SeqsUpTo(S, n - 1)
         IN  shorter \cup {Append(q, x) : q \in shorter, x \in S}

\* the handler passes a text that is not empty
ClassifyTexts ==
    {join(ws, " ") : ws \in SeqsUpTo(ClassifyWords, MaxWords) \ {<<>>}}
    \cup {"wifi password reset", "Sign In at the device manager"}

ClassifyInputs ==
    [kind : {"input"}, text : ClassifyTexts,
     keyPhrases : SeqsUpTo(ClassifyPhrases, MaxPhrases)]

\* a caller holds a text and the key phrases of its analysis
InitClassify ==
    /\ sessions = <<>> /\ revision = "bot" /\ call = [phase |-> "none"]
    /\ now = 0 /\ replies = <<>> /\ calls = 0 /\ turns = 0
    /\ last \in ClassifyInputs

\* the caller calls classifyIssue(text, keyPhrases)
Classify ==
    /\ last.kind = "input"
    /\ last' = [kind |-> "classified", text |-> last.text,
                keyPhrases |-> last.keyPhrases,
                label |-> classifyIssue(last.text, last.keyPhrases)]
    /\ UNCHANGED <<sessions, revision, call, now, replies, calls, turns>>

NextClassify == Classify

SpecClassify == InitClassify /\ [][NextClassify]_vars

----------------------------------------------------------------------------
(* The bot handler on commands as users type them                          *)

\* number of activities a run of the command specification handles
MaxCommandTurns == 4

\* the commands in other cases and with white space around and inside them,
\* command words followed by more words, `mode` followed by no mode name,
\* and a free text
TypedTexts ==
    { " HELP ", "Reset", "START", "Summary\n", "Mode  Network", "MODE APP ",
      "help me", "reset now", "Mode Network now", "modenetwork",
      "mode idle", "mode foo", "Error 0x80070057" }

TypedActivities == [type : {"message"}, text : TypedTexts, conversation : {MainId}]

TypedTurn(activity, outcome) ==
    /\ turns < MaxCommandTurns
    /\ BotTurn(activity, outcome)

NextCommand ==
    \E activity \in TypedActivities :
        \E outcome \in (IF reachesAnalysis(activity) THEN Outcomes ELSE {NotCalled}) :
            TypedTurn(activity, outcome)

SpecCommand == Init /\ [][NextCommand]_vars

----------------------------------------------------------------------------
(* ticketSummary applied to tickets                                        *)

\* number of entries in each of symptoms, errors and whatTried
MaxItems == 2

\* what the flows store in the three sequences
SummaryItems == {"keywords: wifi, router", "connection: wifi", "Error 0x80070057"}

\* the sequences over S of length at most n in which nothing occurs twice:
\* uniqPush keeps the three sequences so
UniqueSeqsUpTo(S, n) ==
    {q \in SeqsUpTo(S, n) : \A i, j \in 1..Len(q) : q[i] = q[j] => i = j}

SummaryTickets ==
    [ issue : {"", "vpn down"}, device : {"", "laptop"}, os : {"", "Windows 11"},
      app : {"", "Teams"}, urgency : {"normal"},
      symptoms : UniqueSeqsUpTo(SummaryItems, MaxItems),
      errors : UniqueSeqsUpTo(SummaryItems, MaxItems),
      whatTried : UniqueSeqsUpTo(SummaryItems, MaxItems) ]

\* a caller holds a ticket
InitSummary ==
    /\ sessions = <<>> /\ revision = "bot" /\ call = [phase |-> "none"]
    /\ now = 0 /\ replies = <<>> /\ calls = 0 /\ turns = 0
    /\ last \in [kind : {"ticket"}, ticket : SummaryTickets]

\* the caller calls ticketSummary(ticket)
Summarize ==
    /\ last.kind = "ticket"
    /\ last' = [kind |-> "summarized", ticket |-> last.ticket,
                summary |-> ticketSummary(last.ticket)]
    /\ UNCHANGED <<sessions, revision, call, now, replies, calls, turns>>

NextSummary == Summarize

SpecSummary == InitSummary /\ [][NextSummary]_vars

----------------------------------------------------------------------------
(* Handlers of one conversation that overlap: a handler suspends at its    *)
(* `await analyzeLanguage` and, on the bot endpoint, at the `await` of the *)
(* PII warning; other handlers run in between                              *)

\* number of activities a run of the overlap specification handles
MaxOverlapTurns == 2

OverlapTexts == {"start", "reset", "mode network", "mode idle", "Error 0x80070057"}

OverlapActivities == [type : {"message"}, text : OverlapTexts, conversation : {MainId}]

\* the handler of POST /api/messages of the running revision, from the
\* session it looked up to its end
handler(session, activity, outcome) ==
    IF revision = "bot" THEN onMessage(session, activity, outcome)
    ELSE handleText(session, safeTrim(textOf(activity)), outcome)

\* no handler has started
InitOverlap ==
    /\ sessions = <<>> /\ revision \in {"bot", "web"}
    /\ call = [phase |-> "overlap", handlers |-> <<>>]
    /\ now = 0 /\ replies = <<>> /\ calls = 0 /\ turns = 0
    /\ last = [kind |-> "overlap", arrived |-> <<>>, answered |-> <<>>, passed |-> <<>>]

\* faulty variant: the handler works on the session as it was at the lookup
HandlerSessionCopy(h) == h.seen

\* `const session = getSession(context)`: the handler holds the object of the
\* Map, with what other handlers wrote to it since
HandlerSession(h) == sessions[h.cid]

\* the handler h runs from its last suspension point to its end on the
\* session it holds: one synchronous run reads and writes the session; the
\* replies are those of a handler that no other one overtakes
Finish(i, h, outcome) ==
    \E done \in {handler(HandlerSession(h), h.activity, outcome)} :
        /\ sessions' = [sessions EXCEPT ![h.cid] = done.session]
        /\ replies' = IF done.threw THEN <<"something went wrong">>
                      ELSE IF h.stage = "pii" THEN Tail(done.replies)
                      ELSE done.replies
        /\ calls' = 1
        /\ call' = [call EXCEPT !.handlers =
                        SubSeq(@, 1, i - 1) \o SubSeq(@, i + 1, Len(@))]
        /\ last' = [last EXCEPT
                        !.answered =
                            IF h.stage = "pii" THEN @
                            ELSE Append(@, [no |-> h.no, activity |-> h.activity,
                                            outcome |-> outcome, arrivals |-> turns]),
                        !.passed =
                            Append(@, [no |-> h.no, activity |-> h.activity,
                                       outcome |-> outcome, seen |-> h.seen,
                                       found |-> sessions[h.cid]])]

\* an activity arrives: the session is looked up; a command is handled to
\* its end, any other text starts its analysis and the handler waits
OverlapArrive(activity) ==
    /\ turns < MaxOverlapTurns
    /\ turns' = turns + 1
    /\ UNCHANGED <<now, revision>>
    /\ \E cid \in {conversationId(activity)} :
         \E store \in {IF revision = "bot" THEN getSession(sessions, cid, now)
                       ELSE getSessionById(sessions, cid, now)} :
           IF reachesAnalysis(activity)
           THEN /\ sessions' = store
                /\ call' = [call EXCEPT !.handlers =
                               Append(@, [no |-> turns + 1, activity |-> activity,
                                          cid |-> cid, seen |-> store[cid],
                                          stage |-> "analysis"])]
                /\ replies' = <<>>
                /\ calls' = 1
                /\ last' = [last EXCEPT !.arrived = Append(@, activity)]
           ELSE \E done \in {handler(store[cid], activity, NotCalled)} :
                /\ sessions' = [store EXCEPT ![cid] = done.session]
                /\ call' = call
                /\ replies' = done.replies
                /\ calls' = 0
                /\ last' = [last EXCEPT
                              !.arrived = Append(@, activity),
                              !.answered =
                                  Append(@, [no |-> turns + 1, activity |-> activity,
                                             outcome |-> NotCalled,
                                             arrivals |-> turns + 1]),
                              !.passed =
                                  Append(@, [no |-> turns + 1, activity |-> activity,
                                             outcome |-> NotCalled, seen |-> store[cid],
                                             found |-> store[cid]])]

\* the analysis call of the i-th waiting handler ends: the handler of the bot
\* endpoint that has a PII warning to send waits for that send, any other
\* handler runs to its end
OverlapAnswer(i, outcome) ==
    /\ i \in 1..Len(call.handlers)
    /\ call.handlers[i].stage = "analysis"
    /\ UNCHANGED <<now, revision, turns>>
    /\ \E h \in {call.handlers[i]} :
         IF /\ ~outcome.threw
            /\ revision = "bot"
            /\ piiWarning(analyzeLanguage(outcome.settled).pii) # ""
         THEN /\ call' = [call EXCEPT !.handlers[i] =
                             [stage |-> "pii", outcome |-> outcome] @@ h]
              /\ replies' = <<piiWarning(analyzeLanguage(outcome.settled).pii)>>
              /\ calls' = 1
              /\ last' = [last EXCEPT !.answered =
                              Append(@, [no |-> h.no, activity |-> h.activity,
                                         outcome |-> outcome, arrivals |-> turns])]
              /\ UNCHANGED sessions
         ELSE Finish(i, h, outcome)

\* the PII warning of the i-th waiting handler has been sent
OverlapSent(i) ==
    /\ i \in 1..Len(call.handlers)
    /\ call.handlers[i].stage = "pii"
    /\ UNCHANGED <<now, revision, turns>>
    /\ Finish(i, call.handlers[i], call.handlers[i].outcome)

NextOverlap ==
    \/ \E activity \in OverlapActivities : OverlapArrive(activity)
    \/ \E i \in 1..MaxOverlapTurns : \E outcome \in Outcomes : OverlapAnswer(i, outcome)
    \/ \E i \in 1..MaxOverlapTurns : OverlapSent(i)

SpecOverlap == InitOverlap /\ [][NextOverlap]_vars

----------------------------------------------------------------------------
(* The bot handler on activities that carry no conversation id             *)

\* number of activities a run of this specification handles
MaxNoIdTurns == 4

\* two senders whose activities have no conversation (one starts an
\* interview, the other asks and answers), and a conversation with an id
NoIdActivities ==
    [type : {"message"}, text : {"start", "Error 0x80070057"}, from : {"u1"}]
    \cup [type : {"message"}, text : {"summary", "my laptop"}, from : {"u2"}]
    \cup [type : {"message"}, text : {"mode app"}, from : {"u3"}, conversation : {MainId}]

NoIdTurn(activity, outcome) ==
    /\ turns < MaxNoIdTurns
    /\ BotTurn(activity, outcome)

NextNoId ==
    \E activity \in NoIdActivities :
        \E outcome \in (IF reachesAnalysis(activity) THEN Outcomes ELSE {NotCalled}) :
            NoIdTurn(activity, outcome)

SpecNoId == Init /\ [][NextNoId]_vars

----------------------------------------------------------------------------
(* Vocabulary of the properties                                            *)

Turned == last.kind = "turn"
MessageTurn == Turned /\ last.activity.type = "message"

\* the session the last turn found, and the session it left
Before == last.pre
After == sessions[last.cid]

\* the text of the last turn, trimmed; and trimmed and lower-cased
SentText == safeTrim(textOf(last.activity))
Command == lower(SentText)

ModeNames == {"network", "windows", "account", "app", "triage"}

IsCommand ==
    \/ Command \in {"help", "reset", "start", "summary"}
    \/ \E name \in ModeNames : Command = "mode " \o name

\* a non-empty message that is no command; one whose analysis call returned
FreeTextTurn == MessageTurn /\ SentText # "" /\ ~IsCommand
Analysed == FreeTextTurn /\ ~last.outcome.threw

\* the first six key phrases the analysis of the last turn returned
ReturnedKeyPhrases ==
    LET res == last.outcome.settled[2]
    IN  IF res.status = "fulfilled" THEN res.value[1].keyPhrases ELSE <<>>

FirstSix == SubSeq(ReturnedKeyPhrases, 1, Min(6, Len(ReturnedKeyPhrases)))

KeywordsLine == "keywords: " \o join(FirstSix, ", ")

\* seq with v appended unless it is already there
AppendOnce(seq, v) ==
    IF \E i \in 1..Len(seq) : seq[i] = v THEN seq ELSE Append(seq, v)

FirstChars(text, n) == SubSeq(text, 1, Min(n, Len(text)))

\* a focused mode whose question sequence is used up
Exhausted(session) ==
    \/ session.mode = "network" /\ session.step = 4
    \/ session.mode = "windows" /\ session.step = 3
    \/ session.mode = "account" /\ session.step = 3
    \/ session.mode = "app" /\ session.step = 4

----------------------------------------------------------------------------
(* Properties                                                              *)

\* C1: whatever the mode and step before the turn, a `start` turn ends in
\* (triage, 0) and a `mode <name>` turn with a valid name ends in (<name>, 0).
C1_CommandsForceMode ==
    MessageTurn =>
        /\ Command = "start" => After.mode = "triage" /\ After.step = 0
        /\ \A name \in ModeNames :
               Command = "mode " \o name => After.mode = name /\ After.step = 0

\* `mode windows` sent in the middle of the network questions
C1_Witness ==
    /\ MessageTurn
    /\ Command = "mode windows"
    /\ Before.mode = "network" /\ Before.step = 3
    /\ After.mode = "windows" /\ After.step = 0

\* C2: a `reset` turn leaves the session in (idle, 0) with an empty ticket:
\* issue, device, os and app empty, the three sequences empty, urgency normal.
C2_ResetClears ==
    (MessageTurn /\ Command = "reset") =>
        /\ After.mode = "idle" /\ After.step = 0
        /\ After.ticket.issue = "" /\ After.ticket.device = ""
        /\ After.ticket.os = "" /\ After.ticket.app = ""
        /\ After.ticket.symptoms = <<>> /\ After.ticket.errors = <<>>
        /\ After.ticket.whatTried = <<>>
        /\ After.ticket.urgency = "normal"

\* `reset` sent after the network questions filled the ticket
C2_Witness ==
    /\ MessageTurn
    /\ Command = "reset"
    /\ Before.mode = "network" /\ Before.step = 4
    /\ Before.ticket.issue # "" /\ Len(Before.ticket.errors) > 0
    /\ Len(Before.ticket.symptoms) > 0 /\ Len(Before.ticket.whatTried) > 0
    /\ After.mode = "idle"

\* C3: a `help` or `summary` turn leaves mode, step and every ticket field as
\* they were before the turn.
C3_HelpSummaryFrame ==
    (MessageTurn /\ Command \in {"help", "summary"}) =>
        /\ After.mode = Before.mode /\ After.step = Before.step
        /\ After.ticket.issue = Before.ticket.issue
        /\ After.ticket.device = Before.ticket.device
        /\ After.ticket.os = Before.ticket.os
        /\ After.ticket.app = Before.ticket.app
        /\ After.ticket.symptoms = Before.ticket.symptoms
        /\ After.ticket.errors = Before.ticket.errors
        /\ After.ticket.whatTried = Before.ticket.whatTried
        /\ After.ticket.urgency = Before.ticket.urgency

\* `summary` sent in the middle of the triage interview, the ticket partly filled
C3_Witness ==
    /\ MessageTurn
    /\ Command = "summary"
    /\ Before.mode = "triage" /\ Before.step = 2
    /\ Before.ticket.issue # "" /\ Before.ticket.device # ""
    /\ After.mode = "triage" /\ After.step = 2

\* C4: a free-text message in mode idle whose analysis call returns moves the
\* session to (classify(text, first 6 key phrases), 0), sets issue to the first
\* 180 characters of the text if issue was empty, and appends the "keywords: ..."
\* line to symptoms when at least one key phrase was returned; a text about
\* wifi on a fresh session ends in (network, 0).
C4_IdleAutoRoute ==
    (Analysed /\ Before.mode = "idle") =>
        /\ After.mode = classifyIssue(SentText, FirstSix)
        /\ After.step = 0
        /\ After.ticket.issue =
               IF Before.ticket.issue = "" THEN FirstChars(SentText, 180)
               ELSE Before.ticket.issue
        /\ After.ticket.symptoms =
               IF Len(ReturnedKeyPhrases) > 0
               THEN AppendOnce(Before.ticket.symptoms, KeywordsLine)
               ELSE Before.ticket.symptoms
        /\ startsWith(SentText, "my wifi keeps dropping") => After.mode = "network"

\* the long wifi text on a fresh session, seven key phrases returned
C4_Witness ==
    /\ Analysed
    /\ Before.mode = "idle" /\ Before.ticket = emptyTicket
    /\ Len(SentText) > 180
    /\ Len(ReturnedKeyPhrases) = 7
    /\ After.mode = "network" /\ After.step = 0
    /\ Len(After.ticket.issue) = 180
    /\ After.ticket.symptoms = <<"keywords: screen, cable, office, laptop, monday, printer">>

\* what the four triage steps do with a message
TriageStepDone ==
    /\ Before.step = 0 =>
           /\ After.ticket.issue = SentText
           /\ After.mode = "triage" /\ After.step = 1
    /\ Before.step = 1 =>
           /\ After.ticket.device = SentText
           /\ After.mode = "triage" /\ After.step = 2
    /\ Before.step = 2 =>
           /\ After.ticket.os = SentText
           /\ After.mode = "triage" /\ After.step = 3
    /\ Before.step = 3 =>
           /\ After.ticket.errors = AppendOnce(Before.ticket.errors, SentText)
           /\ After.mode =
                  classifyIssue(Before.ticket.issue \o " " \o SentText, FirstSix)
           /\ After.step = 0

\* C5, as stated: in mode triage every non-command message is one step of the
\* interview (issue, device, os, then errors and re-classification).
C5_TriageInterview ==
    (FreeTextTurn /\ Before.mode = "triage" /\ Before.step \in 0..3) => TriageStepDone

\* C5, amended: in mode triage every non-command message whose analysis call
\* returns is one step of the interview.
C5_TriageInterviewAnalysed ==
    (Analysed /\ Before.mode = "triage" /\ Before.step \in 0..3) => TriageStepDone

\* the fourth message of an interview: the error text re-classifies the session
C5_Witness ==
    /\ Analysed
    /\ Before.mode = "triage" /\ Before.step = 3
    /\ Before.ticket.issue = "mode idle"
    /\ Before.ticket.device # "" /\ Before.ticket.os # ""
    /\ SentText = "Error 0x80070057"
    /\ After.ticket.errors = <<"Error 0x80070057">>
    /\ After.mode = "app" /\ After.step = 0

\* C6: once ticket.issue is non-empty, no turn other than `reset` changes it.
C6_IssueSetOnce ==
    (Turned /\ ~(MessageTurn /\ Command = "reset") /\ Before.ticket.issue # "") =>
        After.ticket.issue = Before.ticket.issue

\* C7: every turn that changes the mode leaves step equal to 0.
C7_ModeChangeResetsStep ==
    (Turned /\ After.mode # Before.mode) => After.step = 0

\* the last triage answer moves the session from (triage, 3) to a focused mode
C7_Witness ==
    /\ Analysed
    /\ Before.mode = "triage" /\ Before.step = 3
    /\ After.mode \in {"network", "windows", "account", "app"}
    /\ After.step = 0

ResetActivity == [type |-> "message", text |-> "reset", conversation |-> MainId]

\* C8: every turn that starts in a mode other than idle and ends in idle is a
\* `reset` turn, and a `reset` turn is enabled in every state.
C8_OnlyResetReturnsToIdle ==
    /\ (Turned /\ Before.mode # "idle" /\ After.mode = "idle") =>
           (MessageTurn /\ Command = "reset")
    /\ turns < MaxTurns => ENABLED BotTurn(ResetActivity, NotCalled)

\* `reset` sent from the end of the account questions
C8_Witness ==
    /\ MessageTurn
    /\ Command = "reset"
    /\ Before.mode = "account" /\ Before.step = 3
    /\ After.mode = "idle"

\* C9: once a focused mode's question sequence is exhausted, a further
\* non-command message leaves mode and step unchanged.
C9_ExhaustedStays ==
    (FreeTextTurn /\ Exhausted(Before)) =>
        (After.mode = Before.mode /\ After.step = Before.step)

\* a message sent after the account questions, accepted into the ticket
C9_Witness ==
    /\ Analysed
    /\ Before.mode = "account" /\ Before.step = 3
    /\ After.ticket.whatTried # Before.ticket.whatTried
    /\ After.mode = "account" /\ After.step = 3

\* the text is an element of seq, or follows a label inside one
RecordedIn(seq, text) == \E i \in 1..Len(seq) : strIncludes(seq[i], text)

\* C10, as stated: in an exhausted sub-state a further free-text message is
\* recorded in errors or symptoms and the step does not advance.
C10_ExhaustedRecords ==
    (Analysed /\ Exhausted(Before)) =>
        /\ After.step = Before.step
        /\ \/ RecordedIn(After.ticket.errors, SentText)
           \/ RecordedIn(After.ticket.symptoms, SentText)

\* C10, amended: in an exhausted sub-state a further free-text message does
\* not advance the step and is not added to errors or symptoms: errors is
\* unchanged, symptoms gains at most the "keywords: ..." line of a returned
\* analysis, and only account step 3 records the text, in whatTried.
C10_ExhaustedDropsText ==
    (FreeTextTurn /\ Exhausted(Before)) =>
        /\ After.step = Before.step
        /\ After.ticket.errors = Before.ticket.errors
        /\ After.ticket.symptoms =
               IF ~last.outcome.threw /\ Len(ReturnedKeyPhrases) > 0
               THEN AppendOnce(Before.ticket.symptoms, KeywordsLine)
               ELSE Before.ticket.symptoms
        /\ After.ticket.whatTried =
               IF ~last.outcome.threw /\ Before.mode = "account"
               THEN AppendOnce(Before.ticket.whatTried, SentText)
               ELSE Before.ticket.whatTried

\* a stop code sent after the windows questions: only the keywords line is kept
C10_Witness ==
    /\ Analysed
    /\ Before.mode = "windows" /\ Before.step = 3
    /\ SentText = "Error 0x80070057"
    /\ Len(ReturnedKeyPhrases) > 0
    /\ ~RecordedIn(Before.ticket.errors, SentText)
    /\ After.ticket.errors = Before.ticket.errors
    /\ After.ticket.symptoms = Append(Before.ticket.symptoms, KeywordsLine)
    /\ After.step = 3

NoRepeat(seq) == \A i, j \in 1..Len(seq) : seq[i] = seq[j] => i = j

IsPrefix(a, b) == Len(a) <= Len(b) /\ SubSeq(b, 1, Len(a)) = a

ResetTurn == MessageTurn /\ Command = "reset"

\* C11: in every reachable state no string occurs twice in symptoms, errors or
\* whatTried of any session; a turn that only notes the "keywords: ..." line
\* (triage, or an exhausted focused mode) and finds that line already stored
\* leaves symptoms unchanged.
C11_NoDuplicates ==
    /\ \A cid \in DOMAIN sessions :
           /\ NoRepeat(sessions[cid].ticket.symptoms)
           /\ NoRepeat(sessions[cid].ticket.errors)
           /\ NoRepeat(sessions[cid].ticket.whatTried)
    /\ ( /\ Analysed
         /\ Before.mode = "triage" \/ Exhausted(Before)
         /\ arrIncludes(Before.ticket.symptoms, KeywordsLine) ) =>
           After.ticket.symptoms = Before.ticket.symptoms

\* the same key phrases returned on two consecutive turns: one stored line
C11_Witness ==
    /\ Analysed
    /\ Before.mode = "triage"
    /\ Len(ReturnedKeyPhrases) > 0
    /\ Before.ticket.symptoms = <<KeywordsLine>>
    /\ After.ticket.symptoms = <<KeywordsLine>>

\* C12: for every turn other than `reset`, symptoms, errors and whatTried as
\* they were before the turn are prefixes of what they are after it.
C12_AppendOnly ==
    (Turned /\ ~ResetTurn) =>
        /\ IsPrefix(Before.ticket.symptoms, After.ticket.symptoms)
        /\ IsPrefix(Before.ticket.errors, After.ticket.errors)
        /\ IsPrefix(Before.ticket.whatTried, After.ticket.whatTried)

\* network step 2: the keywords line is already stored, ahead of the
\* connection line, and the answer is appended after both
C12_Witness ==
    /\ Analysed
    /\ Before.mode = "network" /\ Before.step = 2
    /\ Len(ReturnedKeyPhrases) > 0
    /\ Len(Before.ticket.symptoms) = 2
    /\ Before.ticket.symptoms[1] = KeywordsLine
    /\ Len(After.ticket.symptoms) = 3
    /\ After.ticket.symptoms[3] = "basic check: " \o SentText

\* C13: once device, os or app is non-empty, no turn other than `reset`
\* changes it.
C13_ScalarsMonotone ==
    (Turned /\ ~ResetTurn) =>
        /\ Before.ticket.device # "" => After.ticket.device = Before.ticket.device
        /\ Before.ticket.os # "" => After.ticket.os = Before.ticket.os
        /\ Before.ticket.app # "" => After.ticket.app = Before.ticket.app

\* C17: when the analyzeLanguage call of a turn throws, the turn sends exactly
\* one reply, the apology, and leaves mode, step and every ticket field of the
\* session as they were before the turn.
C17_ThrowApologises ==
    (FreeTextTurn /\ last.outcome.threw) =>
        /\ replies = <<"could not reach Azure Language Service">>
        /\ After.mode = Before.mode /\ After.step = Before.step
        /\ After.ticket.issue = Before.ticket.issue
        /\ After.ticket.device = Before.ticket.device
        /\ After.ticket.os = Before.ticket.os
        /\ After.ticket.app = Before.ticket.app
        /\ After.ticket.symptoms = Before.ticket.symptoms
        /\ After.ticket.errors = Before.ticket.errors
        /\ After.ticket.whatTried = Before.ticket.whatTried
        /\ After.ticket.urgency = Before.ticket.urgency

\* the call throws on the third question of the network flow, the ticket
\* partly filled
C17_Witness ==
    /\ FreeTextTurn /\ last.outcome.threw
    /\ Before.mode = "network" /\ Before.step = 2
    /\ Before.ticket.issue # "" /\ Len(Before.ticket.symptoms) > 0
    /\ After.step = 2
    /\ Len(replies) = 1

----------------------------------------------------------------------------
(* Properties of the store, of both revisions                              *)

\* a handler ran on a session: the bot endpoint, /api/analyze, or the bot
\* endpoint of the web revision
Routed == last.kind \in {"turn", "web", "messages"}

\* an inbound request was handled, with or without a session
Handling == Routed \/ last.kind = "unrouted"

\* the step handles an inbound request
TurnStep == turns' # turns

\* the last request was a non-empty message that is no command
FreeTextRequest ==
    /\ Handling
    /\ last.activity.type = "message"
    /\ SentText # ""
    /\ ~IsCommand

\* C14: in every reachable state the urgency of every session in the store is
\* "normal", whatever turns, commands, clock ticks and sweeps came before.
C14_UrgencyNormal ==
    \A cid \in DOMAIN sessions : sessions[cid].ticket.urgency = "normal"

\* a sweep that removed one session and kept another, which is past a reset
\* or in the middle of a flow
C14_Witness ==
    /\ last.kind = "sweep"
    /\ last.removed # {}
    /\ \E cid \in DOMAIN sessions :
           /\ sessions[cid].createdAt < sessions[cid].lastSeenAt
           /\ sessions[cid].ticket.urgency = "normal"

\* the sessions a request leaves alone are those of every other identifier
OthersUntouched ==
    /\ \A cid \in DOMAIN sessions :
           (last'.kind = "unrouted" \/ cid # last'.cid) =>
               (cid \in DOMAIN sessions' /\ sessions'[cid] = sessions[cid])
    /\ \A cid \in DOMAIN sessions' :
           cid \in DOMAIN sessions \/ (last'.kind # "unrouted" /\ cid = last'.cid)

KnownActivity == [type |-> "message", text |-> "help", conversation |-> "c2"]
KnownBody == [text |-> "help", sessionId |-> "w2"]

\* the session getSession / getSessionById returned in this step, set against
\* the store the step started from
GotOrCreated ==
    LET cid == last'.cid
        got == last'.pre
    IN  /\ cid \notin DOMAIN sessions =>
              got.mode = "idle" /\ got.step = 0 /\ got.ticket = emptyTicket
        /\ cid \in DOMAIN sessions =>
              /\ got.mode = sessions[cid].mode
              /\ got.step = sessions[cid].step
              /\ got.ticket = sessions[cid].ticket
              /\ got.createdAt = sessions[cid].createdAt
        /\ got.lastSeenAt = now
        /\ cid \in DOMAIN sessions' /\ sessions'[cid].lastSeenAt = now

\* C19: the lookup never fails (a request is handled whether its identifier
\* is in the store or not); for an identifier not in the store it returns a
\* default session, for one in the store that session with mode, step and
\* ticket unchanged; and every lookup sets lastSeenAt to the current time.
C19_GetOrCreate ==
    /\ []((turns < MaxStoreTurns /\ revision = "bot") =>
             ENABLED StoreTurn(KnownActivity, NotCalled))
    /\ []((turns < MaxStoreTurns /\ revision = "web") =>
             ENABLED StoreRequest(KnownBody, "", NotCalled))
    /\ [][(TurnStep /\ last'.kind # "unrouted") => GotOrCreated]_vars

\* a session in the middle of a flow is looked up a sweep interval later
C19_Witness ==
    /\ Routed
    /\ now > 0
    /\ Before.createdAt = 0 /\ Before.lastSeenAt = now
    /\ Before.mode # "idle" /\ Before.ticket.issue # ""
    /\ \E cid \in DOMAIN sessions : sessions[cid].createdAt = now

\* what a sweep does to the store it starts from
SweptByAge ==
    /\ \A cid \in DOMAIN sessions :
           IF now - sessions[cid].lastSeenAt > SESSION_TTL_MS
           THEN cid \notin DOMAIN sessions'
           ELSE /\ cid \in DOMAIN sessions'
                /\ sessions'[cid].mode = sessions[cid].mode
                /\ sessions'[cid].step = sessions[cid].step
                /\ sessions'[cid].ticket = sessions[cid].ticket
    /\ DOMAIN sessions' \subseteq DOMAIN sessions

\* C20: a sweep removes every session with now - lastSeenAt > TTL, removes no
\* other session, and leaves mode, step and ticket of the kept ones unchanged.
C20_SweepRemovesExpired ==
    [][last'.kind = "sweep" => SweptByAge]_vars

\* a sweep that removed a session and kept one exactly as old as the TTL
C20_Witness ==
    /\ last.kind = "sweep"
    /\ last.removed # {}
    /\ \E cid \in DOMAIN sessions :
           /\ now - sessions[cid].lastSeenAt = SESSION_TTL_MS
           /\ sessions[cid].mode # "idle"

----------------------------------------------------------------------------
(* Properties of the analysis call, of both revisions                      *)

AllRejected == <<Rejected, Rejected, Rejected, Rejected>>

\* the analysis call of the last request returned with every slot absent
ReturnedEmpty ==
    /\ Routed /\ FreeTextRequest
    /\ ~last.outcome.threw
    /\ last.outcome.settled = AllRejected

\* the analysis call of the last request failed: it threw, or it returned
\* with every slot absent
FailedEntirely ==
    /\ Routed /\ FreeTextRequest
    /\ (last.outcome.threw \/ last.outcome.settled = AllRejected)

\* the (mode, step) pairs whose handler asks the next question
Advances ==
    IF last.kind = "turn"
    THEN \/ Before.mode \in {"network", "app"} /\ Before.step \in 0..3
         \/ Before.mode \in {"windows", "account"} /\ Before.step \in 0..2
    ELSE Before.mode = "network" /\ Before.step \in 0..3

\* the transition of the dialog for the (mode, step) the request found, taken
\* with no key phrases
TransitionTaken ==
    IF Before.mode = "idle"
    THEN After.mode = classifyIssue(SentText, <<>>) /\ After.step = 0
    ELSE IF Before.mode = "triage" THEN TriageStepDone
    ELSE IF Advances
    THEN After.mode = Before.mode /\ After.step = Before.step + 1
    ELSE After.mode = Before.mode /\ After.step = Before.step

FailureReplies ==
    { <<"could not reach Azure Language Service">>,
      <<"500: Server error">>,
      <<"something went wrong">> }

\* the replies and the ticket show neutral sentiment, unknown language, no key
\* phrases and no PII
NeutralDefaults ==
    /\ Len(replies) >= 1 /\ replies \notin FailureReplies
    /\ \A i \in 1..Len(replies) :
           /\ ~strIncludes(replies[i], "pii warning")
           /\ startsWith(replies[i], "tone: ") => startsWith(replies[i], "tone: Alright")
    /\ (last.kind = "turn" /\ Before.mode = "idle") =>
           replies[1] = "tone: Alright (lang: unknown, sentiment: neutral)"
    /\ \A i \in (Len(Before.ticket.symptoms) + 1)..Len(After.ticket.symptoms) :
           ~startsWith(After.ticket.symptoms[i], "keywords: ")

\* C16, as stated: if the analysis call of a request fails entirely, the
\* transition for the current (mode, step) is still performed, with neutral
\* sentiment and empty key phrases, language and PII.
C16_DegradeAndContinue ==
    FailedEntirely => (TransitionTaken /\ NeutralDefaults)

\* C16, amended: if all four sub-analyses fail, so that the analysis call
\* returns with every slot absent, the transition for the current
\* (mode, step) is performed with neutral sentiment and empty key phrases,
\* language and PII; if the call throws, no transition is performed and the
\* one reply is the failure reply of the endpoint.
C16_DegradeWhenReturned ==
    /\ ReturnedEmpty => (TransitionTaken /\ NeutralDefaults)
    /\ (Routed /\ FreeTextRequest /\ last.outcome.threw) =>
           /\ After.mode = Before.mode /\ After.step = Before.step
           /\ After.ticket = Before.ticket
           /\ replies \in FailureReplies

\* handleText at the last triage question, every sub-analysis failed: the
\* error text is stored and the session moves to the classified mode
C16_Witness ==
    /\ ReturnedEmpty
    /\ last.kind = "web"
    /\ Before.mode = "triage" /\ Before.step = 3
    /\ After.mode = "app" /\ After.step = 0
    /\ After.ticket.errors = <<SentText>>

\* the slots of the value analyzeLanguage returned, in call order
ResultSlots(result) ==
    <<result.sentiment, result.keyphrases, result.language, result.pii>>

\* every failed slot is absent and every other slot holds what the service sent
SlotsKept(slots, result) ==
    \A i \in 1..4 :
        /\ slots[i].status = "rejected" => ResultSlots(result)[i] = Null
        /\ slots[i].status = "fulfilled" => ResultSlots(result)[i] = SlotDocs[i]

\* every one of the four requests has fulfilled or rejected
NonePending(slots) ==
    \A i \in 1..4 : slots[i].status \in {"fulfilled", "rejected"}

\* slot i of the analysis the last turn continued with was absent
Absent(i) == last.outcome.settled[i].status = "rejected"

\* the replies and the ticket of the last turn show, slot by slot, the value
\* the service sent or the default that stands for an absent one
ProceedsWithDefaults ==
    /\ \A i \in 1..Len(replies) :
           startsWith(replies[i], "tone: ") =>
               startsWith(replies[i], IF Absent(1) THEN "tone: Alright" ELSE "tone: I got you")
    /\ IF Absent(2)
       THEN \A i \in (Len(Before.ticket.symptoms) + 1)..Len(After.ticket.symptoms) :
                ~startsWith(After.ticket.symptoms[i], "keywords: ")
       ELSE arrIncludes(After.ticket.symptoms, KeywordsLine)
    /\ Before.mode = "idle" =>
           \E i \in 1..Len(replies) :
               strIncludes(replies[i],
                           IF Absent(3) THEN "(lang: unknown, " ELSE "(lang: en, ")
    /\ Before.mode = "idle" =>
           \E i \in 1..Len(replies) :
               strIncludes(replies[i],
                           IF Absent(1) THEN "sentiment: neutral)" ELSE "sentiment: negative)")
    /\ (replies[1] = "pii warning") <=> ~Absent(4)

\* C18: the four sub-analyses are started together; analyzeLanguage returns
\* only when all four have settled, whatever the order; whichever of them
\* failed, it returns a value whose failed slots are absent and whose other
\* slots hold what the service sent; and the turn continues with neutral
\* sentiment, no key phrases, unknown language and no PII for the absent slots.
C18_AllSettled ==
    /\ call.phase = "awaiting" =>
           /\ Len(call.slots) = 4
           /\ replies = <<>>
           /\ last.kind = "received"
    /\ call.phase = "returned" =>
           /\ NonePending(call.slots)
           /\ replies = <<>>
           /\ SlotsKept(call.slots, call.result)
    /\ (Analysed /\ call.phase = "none") =>
           /\ NonePending(last.outcome.settled)
           /\ ProceedsWithDefaults

\* sentiment and language failed, key phrases and PII arrived: the idle turn
\* warns about PII, keeps the key phrases and answers in the neutral tone
C18_Witness ==
    /\ Analysed /\ call.phase = "none"
    /\ Before.mode = "idle"
    /\ last.outcome.settled =
           <<Rejected, Fulfilled(SlotDocs[2]), Rejected, Fulfilled(SlotDocs[4])>>
    /\ replies[1] = "pii warning"
    /\ replies[2] = "tone: Alright (lang: unknown, sentiment: neutral)"
    /\ After.ticket.symptoms = <<KeywordsLine>>

----------------------------------------------------------------------------
(* Properties of expiry                                                    *)

\* the session a lookup returned is a brand-new one
FreshSession(session) ==
    /\ session.mode = "idle" /\ session.step = 0
    /\ session.ticket.issue = "" /\ session.ticket.device = ""
    /\ session.ticket.os = "" /\ session.ticket.app = ""
    /\ session.ticket.symptoms = <<>> /\ session.ticket.errors = <<>>
    /\ session.ticket.whatTried = <<>>
    /\ session.ticket.urgency = "normal"

\* the step is a request that looks up the session of cid
RequestFor(cid) == TurnStep /\ last'.kind # "unrouted" /\ last'.cid = cid

\* a sweep removes every session idle for longer than the TTL; an identifier
\* that is not in the store stays out of it until a request names it; and a
\* request that names it is served by a brand-new session
ExpiredThenFresh ==
    /\ last'.kind = "sweep" =>
           \A cid \in DOMAIN sessions :
               now - sessions[cid].lastSeenAt > SESSION_TTL_MS =>
                   cid \notin DOMAIN sessions'
    /\ \A cid \in DOMAIN sessions' \ DOMAIN sessions : RequestFor(cid)
    /\ (TurnStep /\ last'.kind # "unrouted" /\ last'.cid \notin DOMAIN sessions) =>
           /\ FreshSession(last'.pre)
           /\ last'.pre.createdAt = now

\* the last request named an identifier whose session the sweep just removed
ServedAfterExpiry == Routed /\ last.revived # <<>>

\* C21: a session idle for longer than the TTL is removed by the next sweep,
\* and the next message with its identifier is served by a brand-new session
\* (idle, step 0, empty ticket): a summary asked for by that message shows an
\* empty ticket, nothing of the old one.
C21_ExpiredServedFresh ==
    /\ [](ServedAfterExpiry =>
             /\ FreshSession(Before)
             /\ Before.createdAt = now
             /\ (last.kind = "turn" /\ Command = "summary") =>
                    /\ strIncludes(replies[2], "Issue: (not set)")
                    /\ ~strIncludes(replies[2], "Symptoms: ")
                    /\ After.mode = "idle")
    /\ [][ExpiredThenFresh]_vars

\* a conversation in the middle of the triage interview falls silent for 50
\* minutes, a sweep runs, and its next message asks for the summary
C21_Witness ==
    /\ ServedAfterExpiry
    /\ last.kind = "turn" /\ Command = "summary"
    /\ last.revived[1].mode = "triage" /\ last.revived[1].step = 1
    /\ last.revived[1].ticket.issue = "Error 0x80070057"
    /\ now - last.revived[1].lastSeenAt > SESSION_TTL_MS
    /\ Before.mode = "idle" /\ Before.ticket.issue = ""
    /\ After.mode = "idle"

\* the step looks up a session: in a handler that runs to its end, or in one
\* that then waits for its analysis
LookupStep == TurnStep /\ last'.kind \in {"turn", "received"}

SameDialog(a, b) == a.mode = b.mode /\ a.step = b.step /\ a.ticket = b.ticket

\* the session the lookup returned, set against the store it looked in
ExistingOrFresh ==
    IF last'.cid \in DOMAIN sessions
    THEN SameDialog(last'.pre, sessions[last'.cid])
    ELSE FreshSession(last'.pre)

\* the session a lookup returned right after a sweep, set against the store
\* the sweep started from
SurvivedOrFresh ==
    (last.kind = "sweep" /\ last'.cid \in DOMAIN last.from) =>
        IF last'.cid \in last.removed
        THEN FreshSession(last'.pre)
        ELSE SameDialog(last'.pre, last.from[last'.cid])

SummaryActivity == [type |-> "message", text |-> "summary", conversation |-> MainId]

\* C22: however sweeps, clock ticks, waiting handlers and further turns of one
\* conversation interleave, a lookup is always possible and returns either
\* the session that was in the store, with mode, step and ticket as they were,
\* or a brand-new session (idle, 0, empty ticket); after a sweep it returns the
\* session as it was before the sweep or a brand-new one.
C22_SurvivesOrFresh ==
    /\ [](turns < MaxRaceTurns => ENABLED RaceTurn(SummaryActivity))
    /\ [][LookupStep => (ExistingOrFresh /\ SurvivedOrFresh)]_vars

\* a handler waits for its analysis for 50 minutes, the sweep removes its
\* session, and the next message of the conversation is looked up
C22_Witness ==
    /\ last.kind = "turn"
    /\ last.revived # <<>>
    /\ last.revived[1].mode = "triage"
    /\ call.phase = "awaiting" /\ ~call.attached /\ call.cid = last.cid
    /\ call.held = last.revived
    /\ FreshSession(Before)

----------------------------------------------------------------------------
(* Properties of concurrent conversations                                  *)

\* the step ends the wait of a handler: it continues after its analysis
ResumeStep == call.phase = "returned" /\ call'.phase = "none"

\* a step in which a handler runs leaves every session of another identifier
\* in the store and as it was, and adds no session of another identifier
OtherSessionsKept ==
    /\ \A cid \in DOMAIN sessions \ {last'.cid} :
           /\ cid \in DOMAIN sessions'
           /\ sessions'[cid] = sessions[cid]
    /\ DOMAIN sessions' \subseteq DOMAIN sessions \cup {last'.cid}

----------------------------------------------------------------------------
(* Properties of the replies                                               *)

\* C24: every message request whose analysis call returned or threw, or that
\* made no call, was answered with at least one reply and no reply is empty:
\* whatever the mode and step it found, and whether its text was a command,
\* free text or blank.
C24_AlwaysReplies ==
    (Handling /\ last.activity.type = "message") =>
        /\ Len(replies) >= 1
        /\ \A i \in 1..Len(replies) : replies[i] # ""

\* free text sent after the last question of the app flow, every sub-analysis
\* failed: the one reply is the nudge of the exhausted flow
C24_Witness ==
    /\ Analysed
    /\ last.outcome.settled = AllRejected
    /\ Before.mode = "app" /\ Before.step = 4
    /\ replies = <<"app: type summary or paste the latest result">>
    /\ After = Before

\* the text is empty or consists of white space only
Blank(text) == \A i \in 1..Len(text) : SubSeq(text, i, i) \in WhiteSpace

\* C25: a message whose text is missing, empty or white space only is
\* answered with the one prompt to send a message, makes no analysis call and
\* leaves mode, step and ticket of its session as they were.
C25_BlankTextPrompts ==
    (MessageTurn /\ Blank(textOf(last.activity))) =>
        /\ replies = <<"send a message">>
        /\ calls = 0
        /\ After.mode = Before.mode /\ After.step = Before.step
        /\ After.ticket = Before.ticket

\* three spaces sent in the middle of the network questions
C25_Witness ==
    /\ MessageTurn
    /\ textOf(last.activity) = "   "
    /\ Before.mode = "network" /\ Before.step = 2
    /\ Before.ticket.issue # "" /\ Len(Before.ticket.symptoms) > 0
    /\ replies = <<"send a message">>
    /\ After.mode = "network" /\ After.step = 2

----------------------------------------------------------------------------
(* Properties of classifyIssue                                             *)

Classified == last.kind = "classified"

Labels == {"network", "windows", "account", "app", "triage"}

\* C26: whatever the text and the list of key phrases, classifyIssue returns
\* one of network, windows, account, app, triage, and never idle.
C26_ClassifyTotal ==
    Classified => (last.label \in Labels /\ last.label # "idle")

\* a text of no group with two key phrases that name no network word
C26_Witness ==
    /\ Classified
    /\ last.text = "hello"
    /\ last.keyPhrases = <<"locked", "crash">>
    /\ last.label = "triage"

\* a keyword of the group occurs in the text, lower-cased
Mentions(text, words) ==
    \E i \in 1..Len(words) : strIncludes(toLowerCase(trim(text)), words[i])

\* the earliest of the four groups with a keyword in the text, else triage
FirstGroup(text) ==
    IF Mentions(text, NetworkWords) THEN "network"
    ELSE IF Mentions(text, WindowsWords) THEN "windows"
    ELSE IF Mentions(text, AccountWords) THEN "account"
    ELSE IF Mentions(text, AppWords) THEN "app"
    ELSE "triage"

\* C27: with no key phrases the label is that of the earliest group, in the
\* order network, windows, account, app, with a keyword in the text, and
\* triage when no group has one; key phrases can change the label to network
\* only; "wifi password reset" is network.
C27_RuleOrder ==
    Classified =>
        /\ last.label \in {FirstGroup(last.text), "network"}
        /\ last.keyPhrases = <<>> => last.label = FirstGroup(last.text)
        /\ last.text = "wifi password reset" => last.label = "network"

\* an account word followed by a windows word: the windows group is earlier
C27_Witness ==
    /\ Classified
    /\ last.text = "password Update"
    /\ last.keyPhrases = <<>>
    /\ Mentions(last.text, AccountWords) /\ Mentions(last.text, AppWords) = FALSE
    /\ last.label = "windows"

\* a keyword of the group occurs in the text or inside a key phrase
MentionedAnywhere(words) ==
    \/ Mentions(last.text, words)
    \/ \E i \in 1..Len(last.keyPhrases) : Mentions(last.keyPhrases[i], words)

\* C28, as stated: each of the four groups matches when one of its keywords
\* occurs in the lower-cased text or inside a lower-cased key phrase.
C28_PhrasesMatchLikeText ==
    Classified =>
        last.label =
            IF MentionedAnywhere(NetworkWords) THEN "network"
            ELSE IF MentionedAnywhere(WindowsWords) THEN "windows"
            ELSE IF MentionedAnywhere(AccountWords) THEN "account"
            ELSE IF MentionedAnywhere(AppWords) THEN "app"
            ELSE "triage"

\* a key phrase, trimmed and lower-cased, is one of wifi, router, dns, ip,
\* internet, network
NamesNetwork(keyPhrases) ==
    \E i \in 1..Len(keyPhrases) :
        toLowerCase(trim(keyPhrases[i])) \in
            {"wifi", "router", "dns", "ip", "internet", "network"}

\* C28, amended: the four groups are matched against the lower-cased text by
\* substring containment; key phrases count for the network group only, and
\* only a key phrase that is, lower-cased, one of wifi, router, dns, ip,
\* internet, network: a keyword inside a longer key phrase, and a windows,
\* account or app keyword as a key phrase, match nothing.
C28_PhrasesNameNetworkOnly ==
    Classified =>
        last.label =
            IF NamesNetwork(last.keyPhrases) THEN "network"
            ELSE FirstGroup(last.text)

\* an account word in the text; the key phrases hold a windows keyword and a
\* phrase that contains a network keyword: neither counts
C28_Witness ==
    /\ Classified
    /\ last.text = "hello password"
    /\ last.keyPhrases = <<"update", "wifi signal">>
    /\ last.label = "account"

----------------------------------------------------------------------------
(* Properties of command recognition                                       *)

\* the text of the last turn, trimmed and lower-cased
Typed == toLowerCase(trim(textOf(last.activity)))

\* the last turn had the effect of the lower-case command cmd on mode, step
\* and ticket, and made no analysis call
EffectOf(cmd) ==
    /\ calls = 0
    /\ cmd \in {"help", "summary"} =>
           /\ After.mode = Before.mode /\ After.step = Before.step
           /\ After.ticket = Before.ticket
    /\ cmd = "reset" => FreshSession(After)
    /\ cmd = "start" =>
           /\ After.mode = "triage" /\ After.step = 0
           /\ After.ticket = Before.ticket
    /\ \A name \in ModeNames :
           cmd = "mode " \o name =>
               /\ After.mode = name /\ After.step = 0
               /\ After.ticket = Before.ticket

CommandWords == {"help", "reset", "start", "summary"} \cup {"mode " \o name : name \in ModeNames}

\* the last turn took its text for free text: it called the analysis
TakenAsFreeText == calls = 1

\* C29, as stated: a message whose text, trimmed and lower-cased, equals
\* help, reset, start, summary or mode <name> with a valid name has the effect
\* of that command; every other non-blank text is not taken for a command.
C29_ExactCommandsOnly ==
    (MessageTurn /\ Typed # "") =>
        IF Typed \in CommandWords THEN EffectOf(Typed) ELSE TakenAsFreeText

\* the name after "mode ", with the white space around it removed
TypedName == trim(SubSeq(Typed, 6, Len(Typed)))

\* the text is mode, a space, and a valid name with any white space around it
TypedModeCommand == startsWith(Typed, "mode ") /\ TypedName \in ModeNames

\* C29, amended: a message whose text, trimmed and lower-cased, equals help,
\* reset, start or summary, or is mode, a space and a valid name with any
\* further white space before the name, has the effect of the lower-case
\* command; every other non-blank text is not taken for a command.
C29_CommandsNormalised ==
    (MessageTurn /\ Typed # "") =>
        IF Typed \in {"help", "reset", "start", "summary"} THEN EffectOf(Typed)
        ELSE IF TypedModeCommand THEN EffectOf("mode " \o TypedName)
        ELSE TakenAsFreeText

\* "MODE APP " typed with the triage interview under way: the session moves
\* to (app, 0) and keeps its ticket
C29_Witness ==
    /\ MessageTurn
    /\ textOf(last.activity) = "MODE APP "
    /\ Before.mode = "triage" /\ Before.step = 1
    /\ Before.ticket.issue = "help me"
    /\ After.mode = "app" /\ After.step = 0
    /\ After.ticket = Before.ticket
    /\ calls = 0

----------------------------------------------------------------------------
(* Properties of ticketSummary                                             *)

Summarized == last.kind = "summarized"

\* the position of the first line break in s
FirstBreak(s) ==
    CHOOSE k \in 1..Len(s) :
        /\ SubSeq(s, k, k) = "\n"
        /\ \A j \in 1..(k - 1) : SubSeq(s, j, j) # "\n"

\* the lines of s
RECURSIVE Lines(_)
Lines(s) ==
    IF ~strIncludes(s, "\n") THEN <<s>>
    ELSE <<SubSeq(s, 1, FirstBreak(s) - 1)>>
         \o Lines(SubSeq(s, FirstBreak(s) + 1, Len(s)))

OrElse(value, placeholder) == IF value = "" THEN placeholder ELSE value

\* the line of a sequence: none when it is empty, else its entries
\* joined by " | " after the label
LineOf(label, entries) ==
    IF entries = <<>> THEN <<>> ELSE <<label \o join(entries, " | ")>>

\* C30: for every ticket, the freshly defaulted one included, ticketSummary
\* returns these lines in this order: the header; Issue, Device, OS, App with
\* "(not set)", "(unknown)", "(unknown)", "(n/a)" for an empty field; Urgency;
\* a Symptoms, an Errors and a Tried line, each exactly when its sequence is
\* not empty; the footer.
C30_SummaryLayout ==
    Summarized =>
        LET ticket == last.ticket
            lines == Lines(last.summary)
        IN  /\ Len(lines) >= 7
            /\ SubSeq(lines, 1, 6) =
                   << "----- TECH SUPPORT TICKET SUMMARY -----",
                      "Issue: " \o OrElse(ticket.issue, "(not set)"),
                      "Device: " \o OrElse(ticket.device, "(unknown)"),
                      "OS: " \o OrElse(ticket.os, "(unknown)"),
                      "App: " \o OrElse(ticket.app, "(n/a)"),
                      "Urgency: " \o ticket.urgency >>
            /\ SubSeq(lines, 7, Len(lines) - 1) =
                   LineOf("Symptoms: ", ticket.symptoms)
                   \o LineOf("Errors: ", ticket.errors)
                   \o LineOf("Tried: ", ticket.whatTried)
            /\ lines[Len(lines)] = "--------------------------------------"

\* the summary of the freshly defaulted ticket: seven lines, every placeholder
C30_Witness ==
    /\ Summarized
    /\ last.ticket = emptyTicket
    /\ Lines(last.summary) =
           << "----- TECH SUPPORT TICKET SUMMARY -----",
              "Issue: (not set)", "Device: (unknown)", "OS: (unknown)",
              "App: (n/a)", "Urgency: normal",
              "--------------------------------------" >>

----------------------------------------------------------------------------
(* Invariants of mode, step and ticket                                     *)

\* step 0 and nothing in the ticket
Blank0(session) ==
    /\ session.step = 0
    /\ session.ticket.issue = "" /\ session.ticket.device = ""
    /\ session.ticket.os = "" /\ session.ticket.app = ""
    /\ session.ticket.symptoms = <<>> /\ session.ticket.errors = <<>>
    /\ session.ticket.whatTried = <<>>

\* C31: every session in mode idle has step 0 and an empty ticket (issue,
\* device, os, app empty; symptoms, errors, whatTried empty); a request that
\* finds its session in another mode and leaves it idle is a `reset`, and a
\* request that finds its session idle and leaves it idle writes no ticket field.
C31_IdleIsBlank ==
    /\ \A cid \in DOMAIN sessions : sessions[cid].mode = "idle" => Blank0(sessions[cid])
    /\ (Routed /\ After.mode = "idle" /\ Before.mode # "idle") =>
           toLowerCase(trim(textOf(last.activity))) = "reset"
    /\ (Routed /\ After.mode = "idle" /\ Before.mode = "idle") =>
           After.ticket = Before.ticket

\* a free text arrives in idle and its analysis call throws: the session is
\* still idle, at step 0, with nothing in its ticket
C31_Witness ==
    /\ Routed
    /\ last.activity.type = "message"
    /\ trim(textOf(last.activity)) = "mode idle"
    /\ last.outcome.threw
    /\ Before.mode = "idle"
    /\ After.mode = "idle" /\ Blank0(After)

\* the steps of each mode
StepRange(mode) ==
    CASE mode = "idle" -> {0}
      [] mode = "triage" -> 0..3
      [] mode = "network" -> 0..4
      [] mode = "windows" -> 0..3
      [] mode = "account" -> 0..3
      [] mode = "app" -> 0..4

FocusedModes == {"network", "windows", "account", "app"}

\* C32: in every reachable state the step of every session lies within the
\* range of its mode (idle 0, triage 0..3, network 0..4, windows 0..3,
\* account 0..3, app 0..4), and a free-text message that is no command, sent
\* in a focused mode, leaves the step as it was or one higher.
C32_StepInRange ==
    /\ \A cid \in DOMAIN sessions :
           /\ sessions[cid].mode \in Modes
           /\ sessions[cid].step \in StepRange(sessions[cid].mode)
    /\ (FreeTextRequest /\ Routed /\ Before.mode \in FocusedModes) =>
           After.step \in {Before.step, Before.step + 1}

\* the last answer of the app questions takes the step from 3 to 4
C32_Witness ==
    /\ FreeTextRequest /\ Routed
    /\ ~last.outcome.threw
    /\ Before.mode = "app" /\ Before.step = 3
    /\ After.mode = "app" /\ After.step = 4

----------------------------------------------------------------------------
(* Properties of overlapping turns                                         *)

\* the session after the turns of passed, run one after the other on a
\* fresh session
RECURSIVE RunInOrder(_)
RunInOrder(passed) ==
    IF passed = <<>> THEN defaultSession(0)
    ELSE handler(RunInOrder(SubSeq(passed, 1, Len(passed) - 1)),
                 passed[Len(passed)].activity,
                 passed[Len(passed)].outcome).session

\* two turns were handled, and the second arrived while the first was
\* suspended in its analysis call
TwoOverlapped ==
    /\ last.kind = "overlap"
    /\ call.handlers = <<>>
    /\ Len(last.arrived) = 2
    /\ \E k \in 1..Len(last.answered) :
           last.answered[k].no = 1 /\ last.answered[k].arrivals = 2

----------------------------------------------------------------------------
(* Properties of a sweep during a pending analysis call                    *)

\* a handler waits for its analysis and the Map holds its session
WaitsAttached == call.phase \in {"awaiting", "returned"} /\ call.attached

\* a handler waits and the Map no longer holds the session it looked up
WaitsDetached == call.phase \in {"awaiting", "returned"} /\ ~call.attached

\* a step during the wait of a handler whose session is in the Map: the
\* session leaves the Map only if the lookup is longer ago than the TTL
RemovedOnlyAfterTTL ==
    (WaitsAttached /\ call'.phase # "none") =>
        /\ ~call'.attached =>
               /\ last'.kind = "sweep"
               /\ now - call.since > SESSION_TTL_MS
               /\ call.cid \notin DOMAIN sessions'
               /\ call'.held = <<sessions[call.cid]>>
        /\ now - call.since <= SESSION_TTL_MS =>
               /\ call'.attached
               /\ call.cid \in DOMAIN sessions'

\* the handler of a removed session continues: it changes the object it
\* kept, and the store stays as it is
WritesToRemoved ==
    (ResumeStep /\ ~call.attached) =>
        /\ last'.kind = "orphan"
        /\ last'.pre = call.held[1]
        /\ sessions' = sessions

\* a lookup of the identifier of a removed session, during the wait of its
\* handler or right after it
LookupAfterRemoval ==
    /\ LookupStep
    /\ last'.cid \notin DOMAIN sessions
    /\ \/ WaitsDetached /\ last'.cid = call.cid
       \/ last.kind = "orphan" /\ last'.cid = last.cid

----------------------------------------------------------------------------
(* Properties of a lookup between two sweeps                               *)

\* the step is a request whose session has been idle for longer than the
\* TTL and is still in the store
StaleLookup ==
    /\ TurnStep /\ last'.kind # "unrouted"
    /\ last'.cid \in DOMAIN sessions
    /\ now - sessions[last'.cid].lastSeenAt > SESSION_TTL_MS

\* the lookup returns the old session, seen now
ResumedOld ==
    /\ SameDialog(last'.pre, sessions[last'.cid])
    /\ last'.pre.createdAt = sessions[last'.cid].createdAt
    /\ last'.pre.lastSeenAt = now
    /\ sessions'[last'.cid].lastSeenAt = now

\* a sweep keeps, as it is, every session seen within the last sweep interval
SweepKeepsSeen ==
    last'.kind = "sweep" =>
        \A cid \in DOMAIN sessions :
            now - sessions[cid].lastSeenAt <= SWEEP_INTERVAL_MS =>
                cid \in DOMAIN sessions' /\ sessions'[cid] = sessions[cid]

\* C35: no step but a sweep removes a session; a request whose session has
\* been idle for longer than the TTL and is still in the store gets that
\* session, with its mode, step and ticket, and sets its lastSeenAt to the
\* current time; and the sweep that follows within a sweep interval keeps it.
C35_ExpiryOnlyBySweep ==
    /\ [][DOMAIN sessions \subseteq DOMAIN sessions' \/ last'.kind = "sweep"]_vars
    /\ [][StaleLookup => ResumedOld]_vars
    /\ [][SweepKeepsSeen]_vars

\* a conversation in the middle of the triage interview is silent for 50
\* minutes, no sweep runs, and its next message is the next answer
C35_Witness ==
    /\ Routed
    /\ last.stored # <<>>
    /\ now - last.stored[1].lastSeenAt > SESSION_TTL_MS
    /\ last.stored[1].mode = "triage" /\ last.stored[1].step = 1
    /\ Before.mode = "triage" /\ Before.step = 1
    /\ Before.ticket = last.stored[1].ticket
    /\ Before.lastSeenAt = now
    /\ After.mode = "triage" /\ After.step = 2

----------------------------------------------------------------------------
(* Frame of the mode commands                                              *)

\* the last request was `start` or `mode <name>` with a valid name
ModeSwitch ==
    /\ Routed
    /\ last.activity.type = "message"
    /\ toLowerCase(trim(textOf(last.activity)))
           \in {"start"} \cup {"mode " \o name : name \in ModeNames}

\* C36: a `start` or `mode <name>` request leaves every ticket field (issue,
\* device, os, app, symptoms, errors, whatTried, urgency) as it was before
\* the request: what the ticket held in the old mode it holds in the new one.
C36_ModeSwitchKeepsTicket ==
    ModeSwitch =>
        /\ After.ticket.issue = Before.ticket.issue
        /\ After.ticket.device = Before.ticket.device
        /\ After.ticket.os = Before.ticket.os
        /\ After.ticket.app = Before.ticket.app
        /\ After.ticket.symptoms = Before.ticket.symptoms
        /\ After.ticket.errors = Before.ticket.errors
        /\ After.ticket.whatTried = Before.ticket.whatTried
        /\ After.ticket.urgency = Before.ticket.urgency
        /\ DOMAIN After.ticket = DOMAIN Before.ticket

\* `mode app` sent after the network questions: the app questions start with
\* the issue, symptoms and errors of the network ticket
C36_Witness ==
    /\ ModeSwitch
    /\ toLowerCase(trim(textOf(last.activity))) = "mode app"
    /\ Before.mode = "network" /\ Before.step = 4
    /\ After.mode = "app" /\ After.step = 0
    /\ After.ticket.issue # "" /\ Len(After.ticket.symptoms) > 0
    /\ Len(After.ticket.errors) > 0 /\ Len(After.ticket.whatTried) > 0
    /\ After.ticket = Before.ticket

----------------------------------------------------------------------------
(* Properties of the end of the triage interview                           *)

\* the last request was the fourth answer of the interview, analysed
FourthAnswer ==
    /\ FreeTextRequest /\ Routed
    /\ ~last.outcome.threw
    /\ Before.mode = "triage" /\ Before.step = 3

\* the label of the issue followed by the fourth answer
Reclassified ==
    IF NamesNetwork(FirstSix) THEN "network"
    ELSE FirstGroup(Before.ticket.issue \o " " \o trim(textOf(last.activity)))

\* one more interview on the session: four times the same text, no key
\* phrases returned
OneMoreRound(session, activity) ==
    LET none == Returned(<<Rejected, Rejected, Rejected, Rejected>>)
        one == handler(session, activity, none).session
        two == handler(one, activity, none).session
        three == handler(two, activity, none).session
    IN  handler(three, activity, none).session

\* C37: the fourth answer of the triage interview leaves the session at step
\* 0 of the mode the issue and the answer are classified as: (triage, 0), the
\* start of the interview, when no group has a keyword in them and no key
\* phrase names the network, and (network, 0), (windows, 0), (account, 0) or
\* (app, 0) in every other case.
C37_TriageMayRestart ==
    FourthAnswer =>
        /\ After.step = 0
        /\ After.mode = Reclassified
        /\ After.mode \in FocusedModes \cup {"triage"}
        /\ After.mode \in FocusedModes <=>
               \/ NamesNetwork(FirstSix)
               \/ \E words \in {NetworkWords, WindowsWords, AccountWords, AppWords} :
                      Mentions(Before.ticket.issue \o " " \o textOf(last.activity), words)

\* an interview of four texts of no group ends at (triage, 0), and one more
\* interview of the same four texts ends in the very same session: the
\* messages can go on for ever without a focused mode
C37_Witness ==
    /\ FourthAnswer
    /\ Reclassified = "triage"
    /\ After.mode = "triage" /\ After.step = 0
    /\ After.ticket.errors # <<>>
    /\ SameDialog(OneMoreRound(After, last.activity), After)

----------------------------------------------------------------------------
(* Properties of `mode` followed by no mode name                           *)

\* the last turn's text starts with `mode ` and names no valid mode
NoModeNamed ==
    /\ MessageTurn
    /\ startsWith(Typed, "mode ")
    /\ TypedName \notin ModeNames

\* what the flows do with the text of the last turn in the session it found
AsFreeText ==
    afterAnalysis(Before, trim(textOf(last.activity)),
                  analyzeLanguage(last.outcome.settled)).session

\* C38: a message that starts with `mode ` and names no valid mode makes one
\* analysis call and is handled as the free text it is in the mode and step
\* of the session: no mode is forced; in idle the text is classified and
\* becomes the issue, in the interview it is stored in the field of the step;
\* when the call throws the session stays as it is.
C38_NoModeNamedIsFreeText ==
    NoModeNamed =>
        /\ calls = 1
        /\ last.outcome.threw => SameDialog(After, Before)
        /\ ~last.outcome.threw =>
               /\ SameDialog(After, AsFreeText)
               /\ Before.mode = "idle" =>
                      /\ After.mode =
                             IF NamesNetwork(FirstSix) THEN "network"
                             ELSE FirstGroup(textOf(last.activity))
                      /\ After.ticket.issue = trim(textOf(last.activity))
               /\ (Before.mode = "triage" /\ Before.step = 1) =>
                      /\ After.ticket.device = trim(textOf(last.activity))
                      /\ After.mode = "triage" /\ After.step = 2
               /\ (Before.mode # "idle" /\ ~(Before.mode = "triage" /\ Before.step = 3)) =>
                      After.mode = Before.mode

\* `Mode Network now` typed as the second answer of the triage interview: it
\* is stored as the device and the session stays in triage
C38_Witness ==
    /\ NoModeNamed
    /\ textOf(last.activity) = "Mode Network now"
    /\ ~last.outcome.threw
    /\ calls = 1
    /\ Before.mode = "triage" /\ Before.step = 1
    /\ After.mode = "triage" /\ After.step = 2
    /\ After.ticket.device = "Mode Network now"

----------------------------------------------------------------------------
(* Properties of activities without a conversation id                      *)

\* the activity names no conversation
Nameless(activity) ==
    "conversation" \notin DOMAIN activity \/ activity.conversation = ""

\* a turn without a conversation id follows a turn without one: it finds
\* mode, step and ticket as that turn left them, whoever sent the two
SeesThePrevious ==
    (TurnStep /\ Turned /\ Nameless(last.activity) /\ Nameless(last'.activity)) =>
        /\ SameDialog(last'.pre, sessions[last.cid])
        /\ last'.cid = last.cid

\* C39: on the bot endpoint every message without a conversation id is
\* handled on the session stored under "no-conv-id", the only session such
\* messages ever create; a turn without an id finds mode, step and ticket as
\* the turn without an id before it left them, whichever conversation either
\* came from.
C39_NamelessShareOneSession ==
    /\ []((Turned /\ Nameless(last.activity)) => last.cid = "no-conv-id")
    /\ [](DOMAIN sessions \subseteq {"no-conv-id", MainId})
    /\ [][SeesThePrevious]_vars
    /\ [][(TurnStep /\ Nameless(last'.activity) /\ "no-conv-id" \in DOMAIN sessions) =>
              SameDialog(last'.pre, sessions["no-conv-id"])]_vars

\* the second sender asks for the summary and is shown the interview the
\* first sender started: its issue, at step 1 of triage
C39_Witness ==
    /\ Turned
    /\ Nameless(last.activity)
    /\ last.activity.from = "u2" /\ textOf(last.activity) = "summary"
    /\ last.cid = "no-conv-id"
    /\ Before.mode = "triage" /\ Before.step = 1
    /\ Before.ticket.issue = "Error 0x80070057"
    /\ strIncludes(replies[2], "Issue: Error 0x80070057")

====
